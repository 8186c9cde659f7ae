----------------------------- MODULE Ext2Proofs -----------------------------
(***************************************************************************)
(* Reading, writing and searching on ext2, for every block size, number of *)
(* pointers, width of the machine's words, file, directory, position and   *)
(* length: a transfer moves exactly the bytes asked for, the kernel stops  *)
(* only in the named cases, and a directory is searched and listed exactly.*)
(***************************************************************************)
EXTENDS Ext2, WellFoundedInduction, TLAPS
-----------------------------------------------------------------------------
(* Ext2: the inductive invariant                                           *)

\* The bytes of the buffer that a call has moved
Filled(D) == mem = [i \in D |-> LayoutAddress(pos + i)]
Stored(D) ==
    /\ DOMAIN disk = {LayoutAddress(pos + i) : i \in D}
    /\ \A i \in D : disk[LayoutAddress(pos + i)] = i
Moved(D) == Fits => (call = "read" => Filled(D)) /\ (call = "write" => Stored(D))

\* A request for bytes that the code finds the blocks of
Tame == Regular /\ InReach

\* The request as it was cut
CutInv ==
    /\ pos \in Nat /\ want \in Nat \ {0} /\ len \in Nat
    /\ \/ len = want /\ pos + want <= file.size
       \/ len = file.size - pos /\ file.size < pos + want

\* Before the first piece
Start ==
    /\ off = 0
    /\ Moved({})
    /\ len > 0 => ib = pos \div BlockSize /\ eb = (pos + len - 1) \div BlockSize
    /\ len = 0 /\ pos % BlockSize = 0 => Left = 0

\* After it: nothing was asked for, all is done, or the rest begins with a block
Middle ==
    /\ off \in Nat
    /\ Moved(0 .. off - 1)
    /\ \/ len = 0 /\ off = 0 /\ Left = 0 /\ pos % BlockSize = 0
       \/ off = len /\ Left = 0 /\ ib = eb + 1 /\ eb \in Nat
       \/ off < len /\ ib \in Nat /\ pos + off = ib * BlockSize /\ eb = (pos + len - 1) \div BlockSize

\* n whole blocks and, already done, t bytes behind them are left
Rest(n, t) ==
    /\ off \in Nat /\ off + n * BlockSize + t = len
    /\ Moved((0 .. off - 1) \cup (len - t .. len - 1))
    /\ Left = n
    /\ n > 0 => ib \in Nat /\ pos + off = ib * BlockSize /\ eb = ib + n - 1

Known ==
    \/ pos = file.size /\ pos % BlockSize # 0
    \/ \E x \in Asked : LayoutBlock(x \div BlockSize) = 0

RequestInv ==
    call \in {"read", "write"} /\ Tame =>
       /\ CutInv
       /\ panic # "no" => Known
       /\ panic = "no" =>
            /\ step \in {"head", "tail", "whole", "done"}
            /\ step = "head" => Start
            /\ step = "tail" => Middle
            /\ step = "whole" => \E n \in Nat, t \in 0 .. BlockSize - 1 : Rest(n, t)
            /\ step = "done" => Moved(0 .. len - 1)

All == Entries(dir)
Least(m, n) == IF m < n THEN m ELSE n

\* What a listing has shown after p calls with room for n entries each
Shown(f, p, n) ==
    /\ f \in Seq(Range(All))
    /\ Range(f) = {All[k] : k \in 1 .. Least(p - 1 + n, Len(All))}
    /\ n = 1 => f = SubSeq(All, 1, Least(p, Len(All)))

FindInv == call = "find" => name \in Names /\ found = Find(dir, name) /\ step = "done" /\ panic = "no"

ListInv ==
    call = "list" =>
       /\ panic = "no" /\ step \in {"more", "done"}
       /\ pos \in Nat \ {0} /\ want \in Nat \ {0} /\ Shown(found, pos, want)
       /\ step = "more" => pos <= Len(All)
       /\ step = "done" => pos > Len(All)

IdleInv ==
    call = "idle" =>
       /\ step = "none" /\ pos = 0 /\ found = << >> /\ mem = Nobody /\ disk = Nobody
       /\ panic = "no"

\* The file and the build, which do not change
Given == file \in Files /\ width \in Widths

Ext2Inv ==
    /\ Given /\ dir \in Dirs /\ pos \in Int
    /\ call \in {"idle", "read", "write", "find", "list"}
    /\ panic # "no" => step \in {"head", "tail", "whole"}
    /\ RequestInv /\ FindInv /\ ListInv /\ IdleInv

-----------------------------------------------------------------------------
(* Division                                                                *)

\* Quotient and remainder.
LEMMA DivMod ==
    ASSUME NEW m \in Nat \ {0}, NEW a \in Int
    PROVE  a \div m \in Int /\ a % m \in 0 .. m - 1 /\ a = (a \div m) * m + (a % m)
OBVIOUS

\* A multiple comes at least m after the one before it.
LEMMA Multiples ==
    ASSUME NEW m \in Nat \ {0}, NEW p \in Int, NEW q \in Int, p < q
    PROVE  p * m + m <= q * m
<1>1. PICK d \in Nat : q = p + 1 + d
  <2>1. q - p - 1 \in Nat /\ q = p + 1 + (q - p - 1)
    OBVIOUS
  <2> QED
    BY <2>1
<1>2. PICK e \in Nat : e = d * m
  OBVIOUS
<1>3. q * m = p * m + m + e
  BY <1>1, <1>2
<1> QED
  BY <1>2, <1>3

\* They are the only ones.
LEMMA DivUnique ==
    ASSUME NEW m \in Nat \ {0}, NEW a \in Int, NEW q \in Int, NEW r \in 0 .. m - 1,
           a = q * m + r
    PROVE  a \div m = q /\ a % m = r
<1>1. PICK d \in Int, s \in 0 .. m - 1 : d = a \div m /\ s = a % m /\ a = d * m + s
  BY DivMod, Zenon
<1>2. PICK x \in Int, y \in Int : x = q * m /\ y = d * m
  OBVIOUS
<1>3. ~(d < q)
  <2> SUFFICES ASSUME d < q PROVE FALSE
    OBVIOUS
  <2>1. y + m <= x
    BY <1>2, Multiples
  <2> QED
    BY <1>1, <1>2, <2>1
<1>4. ~(q < d)
  <2> SUFFICES ASSUME q < d PROVE FALSE
    OBVIOUS
  <2>1. x + m <= y
    BY <1>2, Multiples
  <2> QED
    BY <1>1, <1>2, <2>1
<1>5. d = q
  BY <1>3, <1>4
<1>6. s = r
  BY <1>1, <1>2, <1>5
<1> QED
  BY <1>1, <1>5, <1>6

\* The numbers of the two integer types, and those of a long that are not negative
U == 2 ^ W
V == 2 ^ width
Half == 2 ^ (width - 1)

\* What is assumed of the sizes.
LEMMA Sizes ==
    /\ BlockSize \in Nat \ {0} /\ NDir \in Nat \ {0} /\ Ptrs \in Nat \ {0}
    /\ U \in Nat \ {0} /\ BlockSize * (NDir + Ptrs) < U
BY Ext2Assumption, Zenon DEF Ext2Assumption, U

\* What is assumed of a long.
LEMMA LongSizes ==
    ASSUME Given
    PROVE  Half \in Nat \ {0} /\ V \in Nat \ {0} /\ V = 2 * Half
<1>1. Half \in Nat \ {0} /\ V = 2 * Half
  BY Ext2Assumption, Zenon DEF Ext2Assumption, Given, V, Half
<1> QED
  BY <1>1

\* Remainders of small numbers, of m itself and of the number before 0.
LEMMA Remainders ==
    ASSUME NEW m \in Nat \ {0}
    PROVE  /\ \A n \in 0 .. m - 1 : n % m = n
           /\ m % m = 0 /\ (-1) % m = m - 1
<1>1. ASSUME NEW n \in 0 .. m - 1 PROVE n % m = n
  <2>1. n = 0 * m + n /\ n \in Int
    OBVIOUS
  <2> QED
    BY <2>1, DivUnique
<1>2. m % m = 0
  <2>1. m = 1 * m + 0 /\ m \in Int /\ 0 \in 0 .. m - 1
    OBVIOUS
  <2> QED
    BY <2>1, DivUnique
<1>3. (-1) % m = m - 1
  <2>1. -1 = (-1) * m + (m - 1) /\ m - 1 \in 0 .. m - 1 /\ -1 \in Int
    OBVIOUS
  <2> QED
    BY <2>1, DivUnique
<1> QED
  BY <1>1, <1>2, <1>3, Zenon

\* A number that fits is not changed; 0 comes after the last, and before 0 the last.
LEMMA Words ==
    /\ \A n \in 0 .. U - 1 : Word(n) = n
    /\ Word(U) = 0 /\ Word(-1) = U - 1
BY Sizes, Remainders, Zenon DEF Word, U

\* The same for a long.
LEMMA Longs ==
    ASSUME Given
    PROVE  /\ \A n \in 0 .. V - 1 : Long(n) = n
           /\ Long(-1) = V - 1
BY LongSizes, Remainders, Zenon DEF Long, V

\* The last byte of nothing at position 0 is in the last block there can be.
LEMMA LastOfNothing ==
    ASSUME Given, Wide
    PROVE  Word(Long(-1) \div BlockSize) = U - 1
<1>1. PICK B \in Nat \ {0}, u \in Nat \ {0}, v \in Nat \ {0} :
         B = BlockSize /\ u = U /\ v = V /\ v % (B * u) = 0
  BY Sizes, LongSizes, Zenon DEF Wide, U, V
<1>2. PICK c \in Nat \ {0} : c = B * u
  BY <1>1
<1>3. PICK q \in Int : v = q * c
  <2>1. v % c = 0
    BY <1>1, <1>2, Zenon
  <2>2. v \div c \in Int /\ v = (v \div c) * c + (v % c)
    OBVIOUS
  <2>3. PICK q \in Int : q = v \div c
    BY <2>2
  <2> QED
    BY <2>1, <2>2, <2>3
<1>4. Long(-1) = v - 1
  BY <1>1, Longs, Zenon
<1>5. PICK x \in Int : x = q * u
  OBVIOUS
<1>6. v = x * B
  BY <1>2, <1>3, <1>5
<1>7. (v - 1) \div B = x - 1
  <2>1. v - 1 = (x - 1) * B + (B - 1) /\ B - 1 \in 0 .. B - 1 /\ x - 1 \in Int /\ v - 1 \in Int
    BY <1>6
  <2> QED
    BY <2>1, DivUnique
<1>8. (x - 1) % u = u - 1
  <2>1. x - 1 = (q - 1) * u + (u - 1) /\ u - 1 \in 0 .. u - 1 /\ q - 1 \in Int /\ x - 1 \in Int
    BY <1>5
  <2> QED
    BY <2>1, DivUnique
<1>9. Word(x - 1) = (x - 1) % u
  BY <1>1, Zenon DEF Word, U
<1> QED
  BY <1>1, <1>4, <1>7, <1>8, <1>9, Zenon

-----------------------------------------------------------------------------
(* Pieces of a request                                                     *)

\* What is assumed of a file.
LEMMA FileFacts ==
    ASSUME Given
    PROVE  /\ file.size \in Nat /\ file.size <= BlockSize * (U - 1) /\ file.size < Half
           /\ \A k \in Reach : LayoutBlock(k) \in Nat
           /\ \A j, k \in Reach : LayoutBlock(j) = LayoutBlock(k) => j = k \/ LayoutBlock(j) = 0
<1>1. /\ file.size \in 0 .. BlockSize * (U - 1) /\ file.size < Half
      /\ \A k \in Reach : LayoutBlock(k) \in Nat
      /\ \A j, k \in Reach : LayoutBlock(j) = LayoutBlock(k) => j = k \/ LayoutBlock(j) = 0
  BY VolumeAssumption, Zenon DEF LayoutBlock, U, Half, VolumeAssumption, Given
<1> QED
  BY <1>1, Sizes

\* In the direct and the indirect blocks the code finds the block of the layout.
LEMMA SameBlock ==
    ASSUME NEW k \in Nat, k < NDir + Ptrs
    PROVE  k \in Reach /\ BlockOf(k) = LayoutBlock(k)
<1>1. k \in Reach
  BY Sizes DEF Reach
<1>2. CASE k < NDir
  <2>1. BlockOf(k) = file.top[k]
    BY <1>2, Sizes DEF BlockOf
  <2>2. Layout(file, k) = file.top[k]
    BY <1>2, Sizes DEF Layout
  <2> QED
    BY <1>1, <2>1, <2>2 DEF LayoutBlock
<1>3. CASE ~(k < NDir)
  <2>1. PICK i \in 0 .. Ptrs - 1 : i = k - NDir /\ ~(i - Ptrs >= 0)
    BY <1>3, Sizes
  <2>2. BlockOf(k) = Indirect(i)
    BY <1>3, <2>1, Sizes DEF BlockOf
  <2>3. Layout(file, k) = PointerOf(file, file.top[NDir], i)
    BY <1>3, <2>1, Sizes DEF Layout
  <2> QED
    BY <1>1, <2>2, <2>3, Zenon DEF LayoutBlock, Indirect, Pointer
<1> QED
  BY <1>2, <1>3

\* The positions asked for are those up to the cut length.
LEMMA AskedIs ==
    ASSUME Given, CutInv, Tame
    PROVE  Asked = pos .. pos + len - 1 /\ pos + len <= file.size
<1>1. PICK z \in Nat : z = file.size
  BY FileFacts, Zenon
<1>2. pos \in Nat /\ want \in Nat \ {0} /\ len \in Nat
      /\ ((len = want /\ pos + want <= z) \/ (len = z - pos /\ z < pos + want))
  BY <1>1, Zenon DEF CutInv
<1>3. Asked = {x \in pos .. z - 1 : x < pos + want}
  BY <1>1, Zenon DEF Asked
<1>4. Asked = pos .. pos + len - 1
  BY <1>2, <1>3
<1>5. pos + len <= z
  BY <1>1, <1>2
<1> QED
  BY <1>1, <1>4, <1>5, Zenon

\* They are in the direct and the indirect blocks, so that the length is a number of
\* 32 bits and one that a long holds.
LEMMA ShortRequest ==
    ASSUME Given, CutInv, Tame
    PROVE  len < U /\ len < Half
<1>1. PICK z \in Nat : z = file.size /\ z < Half
  BY FileFacts, Zenon
<1>2. pos \in Nat /\ len \in Nat
  BY Zenon DEF CutInv
<1>3. pos + len <= z
  BY <1>1, AskedIs, Zenon
<1>4. len < Half
  BY <1>1, <1>2, <1>3, LongSizes
<1>5. CASE len = 0
  BY <1>4, <1>5, Sizes
<1>6. CASE len # 0
  <2>1. PICK x \in Nat : x = pos + len - 1 /\ x \in pos .. pos + len - 1
    BY <1>2, <1>6
  <2>2. PICK B \in Nat \ {0}, m \in Nat : B = BlockSize /\ m = NDir + Ptrs
    BY Sizes
  <2>3. PICK d, c : d = x \div B /\ c = x % B
    OBVIOUS
  <2>4. d \in Nat /\ c \in 0 .. B - 1 /\ x = d * B + c
    BY <2>3
  <2>5. d < m
    BY <2>1, <2>2, <2>3, AskedIs, Zenon DEF Tame, InReach
  <2>6. PICK y \in Int, w \in Int : y = d * B /\ w = m * B
    BY <2>4
  <2>7. y + B <= w
    BY <2>4, <2>5, <2>6, Multiples
  <2>8. w < U
    <3>1. B * m = m * B
      OBVIOUS
    <3> QED
      BY <2>2, <2>6, <3>1, Sizes, Zenon
  <2> QED
    BY <1>2, <1>4, <2>1, <2>4, <2>6, <2>7, <2>8, Sizes
<1> QED
  BY <1>5, <1>6, Zenon

\* p bytes at index b of the buffer and at offset o of block k of the file
Piece(k, o, b, p) ==
    /\ k \in Nat /\ o \in 0 .. BlockSize - 1 /\ p \in Nat /\ p > 0 /\ o + p <= BlockSize
    /\ b \in Nat /\ b + p <= len
    /\ pos + b = k * BlockSize + o

\* Where its bytes are.
LEMMA PieceBytes ==
    ASSUME Given, CutInv, Tame,
           NEW k, NEW o, NEW b, NEW p, Piece(k, o, b, p), NEW i \in Span(b, p)
    PROVE  /\ i \in Nat /\ i < len /\ pos + i \in Asked
           /\ (pos + i) \div BlockSize = k /\ (pos + i) % BlockSize = o + i - b
           /\ o + i - b \in 0 .. BlockSize - 1
<1>1. /\ k \in Nat /\ o \in 0 .. BlockSize - 1 /\ p \in Nat /\ p > 0 /\ o + p <= BlockSize
      /\ b \in Nat /\ b + p <= len /\ pos + b = k * BlockSize + o /\ i \in b .. b + p - 1
      /\ pos \in Nat /\ len \in Nat
  BY Zenon DEF Piece, Span, CutInv
<1>2. PICK B \in Nat \ {0} : B = BlockSize
  BY Sizes
<1>3. PICK x \in Nat : x = k * B
  BY <1>1
<1>4. PICK r : r = o + i - b
  OBVIOUS
<1>5. i \in Nat /\ i < len /\ pos + i \in pos .. pos + len - 1 /\ r \in 0 .. B - 1
  BY <1>1, <1>2, <1>4
<1>6. pos + i = x + r
  BY <1>1, <1>2, <1>3, <1>4
<1>7. (pos + i) \div B = k /\ (pos + i) % B = r
  <2>1. PICK y \in Int : y = pos + i
    BY <1>1, <1>5
  <2>2. y = k * B + r /\ k \in Int
    BY <1>1, <1>3, <1>6, <2>1
  <2> QED
    BY <1>5, <2>1, <2>2, DivUnique, Zenon
<1>8. pos + i \in Asked
  BY <1>5, AskedIs, Zenon
<1> QED
  BY <1>2, <1>4, <1>5, <1>7, <1>8, Zenon

\* A piece whose block the code does not find is one of the known stops.
LEMMA PieceStops ==
    ASSUME Given, CutInv, Tame,
           NEW k, NEW o, NEW b, NEW p, Piece(k, o, b, p), BlockOf(k) = 0
    PROVE  Known
<1>1. b \in Span(b, p) /\ k \in Nat
  BY DEF Piece, Span
<1>2. PICK x \in Asked : x \div BlockSize = k
  BY <1>1, PieceBytes, Zenon
<1>3. CASE k < NDir + Ptrs
  BY <1>1, <1>2, <1>3, SameBlock, Zenon DEF Known
<1>4. CASE ~(k < NDir + Ptrs)
  BY <1>2, <1>4, Zenon DEF Tame, InReach
<1> QED
  BY <1>3, <1>4, Zenon

\* Where the code puts them.
LEMMA PieceAddress ==
    ASSUME Given, CutInv, Tame, Fits,
           NEW k, NEW o, NEW b, NEW p, Piece(k, o, b, p), NEW i \in Span(b, p)
    PROVE  /\ k \in Reach /\ BlockOf(k) = LayoutBlock(k)
           /\ Address(BlockOf(k), o) + (i - b) = LayoutAddress(pos + i)
<1>1. /\ pos + i \in Asked /\ (pos + i) \div BlockSize = k /\ (pos + i) % BlockSize = o + i - b
      /\ o + i - b \in 0 .. BlockSize - 1
  BY PieceBytes
<1>2. k \in Nat /\ k < NDir + Ptrs
  BY <1>1, Zenon DEF Tame, InReach, Piece
<1>3. k \in Reach /\ BlockOf(k) = LayoutBlock(k)
  BY <1>2, SameBlock, Zenon
<1>4. PICK x \in Nat : x = LayoutBlock(k) * BlockSize
  <2>1. LayoutBlock(k) \in Nat
    BY <1>3, FileFacts, Zenon
  <2> QED
    BY <2>1, Sizes
<1>5. LayoutAddress(pos + i) = x + (o + i - b)
  BY <1>1, <1>4, Zenon DEF LayoutAddress
\* The first byte of the piece has an address of 32 bits
<1>6. x + o \in 0 .. U - 1
  <2>1. b \in Span(b, p) /\ o \in Nat /\ b \in Nat
    BY Sizes DEF Piece, Span
  <2>2. pos + b \in Asked /\ (pos + b) \div BlockSize = k /\ (pos + b) % BlockSize = o + b - b
    BY <2>1, PieceBytes
  <2>3. LayoutAddress(pos + b) < U
    BY <2>2, Zenon DEF Fits, U
  <2>4. LayoutAddress(pos + b) = x + (o + b - b)
    BY <1>4, <2>2, Zenon DEF LayoutAddress
  <2>5. o + b - b = o
    BY <2>1
  <2> QED
    BY <2>1, <2>3, <2>4, <2>5, Sizes
<1>7. Address(BlockOf(k), o) = x + o
  BY <1>3, <1>4, <1>6, Words, Zenon DEF Address
<1>8. (x + o) + (i - b) = x + (o + i - b)
  BY Sizes DEF Piece, Span
<1> QED
  BY <1>3, <1>5, <1>7, <1>8, Zenon

\* The request stays the same
SameRequest == UNCHANGED <<width, file, pos, want, len, call>>

\* So do the positions it is about and their addresses.
LEMMA SameAsked ==
    ASSUME SameRequest
    PROVE  /\ Asked' = Asked /\ Tame' = Tame /\ Fits' = Fits /\ CutInv' = CutInv
           /\ Known' = Known
           /\ \A x : LayoutAddress(x)' = LayoutAddress(x)
<1>1. file' = file /\ pos' = pos /\ want' = want /\ len' = len /\ width' = width
  BY Zenon DEF SameRequest
<1>2. Asked' = Asked
  BY <1>1, Zenon DEF Asked
<1>3. \A k : LayoutBlock(k)' = LayoutBlock(k)
  BY <1>1, Zenon DEF LayoutBlock, Layout, PointerOf
<1>4. \A x : LayoutAddress(x)' = LayoutAddress(x)
  BY <1>3, Zenon DEF LayoutAddress
<1>5. Tame' = Tame
  <2>1. InReach' = InReach
    BY <1>2, Zenon DEF InReach
  <2>2. Regular' = Regular
    BY <1>1, Zenon DEF Regular, Wide
  <2> QED
    BY <2>1, <2>2, Zenon DEF Tame
<1>6. Fits' = Fits
  BY <1>2, <1>4, Zenon DEF Fits
<1>7. CutInv' = CutInv
  BY <1>1, Zenon DEF CutInv
<1>8. Known' = Known
  BY <1>1, <1>2, <1>3, <1>5, Zenon DEF Known
<1> QED
  BY <1>2, <1>4, <1>5, <1>6, <1>7, <1>8, Zenon

\* What was moved stays moved.
LEMMA SameMoved ==
    ASSUME SameRequest, UNCHANGED <<mem, disk>>, NEW D, Moved(D)
    PROVE  Moved(D)'
<1>1. pos' = pos /\ call' = call
  BY Zenon DEF SameRequest
<1>2. Filled(D) => Filled(D)'
  BY <1>1, SameAsked, Zenon DEF Filled
<1>3. Stored(D) => Stored(D)'
  <2> SUFFICES ASSUME Stored(D) PROVE Stored(D)'
    BY Zenon
  <2>1. {LayoutAddress(pos + i) : i \in D}' = {LayoutAddress(pos + i) : i \in D}
    BY <1>1, SameAsked, Zenon
  <2>2. disk' = disk
    BY Zenon
  <2> QED
    BY <1>1, <2>1, <2>2, SameAsked, Zenon DEF Stored
<1> QED
  BY <1>1, <1>2, <1>3, SameAsked, Zenon DEF Moved

\* A piece that is read fills its part of the buffer.
LEMMA PieceRead ==
    ASSUME Given, CutInv, Tame, Fits, SameRequest,
           NEW k, NEW o, NEW b, NEW p, Piece(k, o, b, p), NEW D, Filled(D),
           MoveRead(BlockOf(k), o, b, p)
    PROVE  Filled(D \cup Span(b, p))'
<1>1. PICK S : S = Span(b, p)
  BY Zenon
<1>2. PICK E : E = D \cup S
  BY Zenon
<1>3. DOMAIN mem = D /\ \A i \in D : mem[i] = LayoutAddress(pos + i)
  BY Zenon DEF Filled
<1>4. mem' = [i \in E |-> IF i \in S THEN Address(BlockOf(k), o) + (i - b) ELSE mem[i]]
  BY <1>1, <1>2, <1>3, Zenon DEF MoveRead
<1>5. \A i \in S : Address(BlockOf(k), o) + (i - b) = LayoutAddress(pos + i)
  <2>1. ASSUME NEW i \in Span(b, p) PROVE Address(BlockOf(k), o) + (i - b) = LayoutAddress(pos + i)
    BY PieceAddress
  <2> QED
    BY <1>1, <2>1, Zenon
<1>6. \A i \in E : (IF i \in S THEN Address(BlockOf(k), o) + (i - b) ELSE mem[i]) = LayoutAddress(pos + i)
  BY <1>2, <1>3, <1>5, Zenon
<1>7. mem' = [i \in E |-> LayoutAddress(pos + i)]
  BY <1>4, <1>6, Zenon
<1>8. \A i : LayoutAddress(pos + i)' = LayoutAddress(pos + i)
  BY SameAsked, Zenon DEF SameRequest
<1>9. mem' = [i \in E |-> LayoutAddress(pos + i)']
  BY <1>7, <1>8, Zenon
<1> QED
  BY <1>1, <1>2, <1>9, Zenon DEF Filled, Span

\* No two bytes of a request have the same address, unless the second is in a hole.
LEMMA AddressesDiffer ==
    ASSUME Given, CutInv, Tame,
           NEW i \in 0 .. len - 1, NEW j \in 0 .. len - 1,
           LayoutAddress(pos + i) = LayoutAddress(pos + j),
           LayoutBlock((pos + j) \div BlockSize) # 0
    PROVE  i = j
<1>1. PICK B \in Nat \ {0} : B = BlockSize
  BY Sizes
<1>2. pos \in Nat /\ len \in Nat /\ i \in Nat /\ j \in Nat
  BY DEF CutInv
<1>3. PICK x \in Nat, y \in Nat : x = pos + i /\ y = pos + j
  BY <1>2
<1>4. x \in Asked /\ y \in Asked
  <2>1. x \in pos .. pos + len - 1 /\ y \in pos .. pos + len - 1
    BY <1>2, <1>3
  <2> QED
    BY <2>1, AskedIs, Zenon
<1>5. PICK k, l, r, s : k = x \div B /\ l = y \div B /\ r = x % B /\ s = y % B
  BY Zenon
<1>6. k \in Nat /\ l \in Nat /\ r \in 0 .. B - 1 /\ s \in 0 .. B - 1
      /\ x = k * B + r /\ y = l * B + s
  BY <1>5
<1>7. k < NDir + Ptrs /\ l < NDir + Ptrs
  BY <1>1, <1>4, <1>5, Zenon DEF Tame, InReach
<1>8. k \in Reach /\ l \in Reach
  BY <1>6, <1>7, SameBlock, Zenon
<1>9. PICK c \in Nat, d \in Nat : c = LayoutBlock(k) /\ d = LayoutBlock(l)
  BY <1>8, FileFacts, Zenon
<1>10. c * B + r = d * B + s
  BY <1>1, <1>3, <1>5, <1>9, Zenon DEF LayoutAddress
<1>11. PICK a \in Int : a = c * B + r
  BY <1>6, <1>9
<1>12. a \div B = c /\ a % B = r /\ a \div B = d /\ a % B = s
  <2>1. a = d * B + s /\ c \in Int /\ d \in Int
    BY <1>10, <1>11
  <2> QED
    BY <1>6, <1>11, <2>1, DivUnique, Zenon
<1>13. c = d /\ r = s /\ d # 0
  BY <1>1, <1>3, <1>5, <1>9, <1>12, Zenon
<1>14. k = l
  BY <1>8, <1>9, <1>13, FileFacts, Zenon
<1>15. x = y
  BY <1>6, <1>13, <1>14, Zenon
<1> QED
  BY <1>2, <1>3, <1>15

\* A piece that is written goes to its addresses, and leaves what was written before.
LEMMA PieceWritten ==
    ASSUME Given, CutInv, Tame, Fits, SameRequest,
           NEW k, NEW o, NEW b, NEW p, Piece(k, o, b, p), BlockOf(k) # 0,
           NEW D, D \subseteq 0 .. len - 1, Stored(D),
           MoveWrite(BlockOf(k), o, b, p)
    PROVE  Stored(D \cup Span(b, p))'
<1> DEFINE S == Span(b, p)
           at == {Address(BlockOf(k), o) + (i - b) : i \in S}
<1>2. PICK la : la = [i \in Int |-> LayoutAddress(pos + i)]
  BY Zenon
<1>3. S \subseteq 0 .. len - 1 /\ S \subseteq Int /\ D \subseteq Int
  <2>1. ASSUME NEW i \in S PROVE i \in 0 .. len - 1
    <3>1. i \in Nat /\ i < len /\ len \in Nat
      BY <2>1, PieceBytes DEF CutInv
    <3> QED
      BY <3>1
  <2>2. 0 .. len - 1 \subseteq Int
    BY DEF CutInv
  <2> QED
    BY <2>1, <2>2, Zenon
<1>4. \A i \in S : Address(BlockOf(k), o) + (i - b) = la[i]
  <2>1. ASSUME NEW i \in Span(b, p) PROVE Address(BlockOf(k), o) + (i - b) = LayoutAddress(pos + i)
    BY PieceAddress
  <2> QED
    BY <1>2, <1>3, <2>1, Zenon
<1>5. \A i \in S : LayoutBlock((pos + i) \div BlockSize) # 0
  <2>1. ASSUME NEW i \in Span(b, p)
        PROVE  (pos + i) \div BlockSize = k /\ BlockOf(k) = LayoutBlock(k)
    <3>1. (pos + i) \div BlockSize = k
      BY PieceBytes
    <3>2. BlockOf(k) = LayoutBlock(k)
      BY PieceAddress
    <3> QED
      BY <3>1, <3>2, Zenon
  <2> QED
    BY <2>1, Zenon
<1>6. \A i \in D \cup S : \A j \in S : la[i] = la[j] => i = j
  <2>1. ASSUME NEW i \in D \cup S, NEW j \in S, la[i] = la[j] PROVE i = j
    <3>1. i \in 0 .. len - 1 /\ j \in 0 .. len - 1 /\ i \in Int /\ j \in Int
      BY <1>3, <2>1, Zenon
    <3>2. LayoutAddress(pos + i) = LayoutAddress(pos + j)
      BY <1>2, <2>1, <3>1, Zenon
    <3> QED
      BY <1>5, <3>1, <3>2, AddressesDiffer, Zenon
  <2> QED
    BY <2>1, Zenon
<1>7. at = {la[i] : i \in S}
  BY <1>4, Zenon
<1>9. DOMAIN disk = {la[i] : i \in D} /\ \A i \in D : disk[la[i]] = i
  <2>1. \A i \in D : LayoutAddress(pos + i) = la[i]
    BY <1>2, <1>3, Zenon
  <2>2. {LayoutAddress(pos + i) : i \in D} = {la[i] : i \in D}
    BY <2>1, Zenon
  <2> QED
    BY <2>1, <2>2, Zenon DEF Stored
<1>10. disk' = [a \in DOMAIN disk \cup at |->
                  IF a \in at THEN CHOOSE i \in S : Address(BlockOf(k), o) + (i - b) = a
                  ELSE disk[a]]
  BY Zenon DEF MoveWrite
<1> HIDE DEF at, S
<1>11. DOMAIN disk' = {la[i] : i \in D \cup S}
  <2>1. DOMAIN disk' = DOMAIN disk \cup at
    BY <1>10, Zenon
  <2> QED
    BY <1>7, <1>9, <2>1, Zenon
<1>12. ASSUME NEW i \in D \cup S PROVE disk'[la[i]] = i
  <2>1. la[i] \in DOMAIN disk \cup at
    BY <1>7, <1>9, <1>12, Zenon
  <2>2. disk'[la[i]] = IF la[i] \in at THEN CHOOSE j \in S : Address(BlockOf(k), o) + (j - b) = la[i]
                     ELSE disk[la[i]]
    BY <1>10, <2>1, Zenon
  <2>3. CASE la[i] \in at
    <3>1. i \in S
      BY <1>6, <1>7, <1>12, <2>3, Zenon
    <3>2. PICK c : c = CHOOSE j \in S : Address(BlockOf(k), o) + (j - b) = la[i]
      BY Zenon
    <3>3. c \in S /\ Address(BlockOf(k), o) + (c - b) = la[i]
      BY <1>4, <3>1, <3>2, Zenon
    <3>4. c = i
      BY <1>4, <1>6, <3>1, <3>3, Zenon
    <3> QED
      BY <2>2, <2>3, <3>2, <3>4, Zenon
  <2>4. CASE la[i] \notin at
    BY <1>7, <1>9, <1>12, <2>2, <2>4, Zenon
  <2> QED
    BY <2>3, <2>4, Zenon
<1>13. PICK E : E = D \cup S /\ E \subseteq Int
  BY <1>3, Zenon
<1>14. \A i \in E : LayoutAddress(pos + i)' = la[i]
  BY <1>2, <1>13, SameAsked, Zenon DEF SameRequest
<1>15. {LayoutAddress(pos + i)' : i \in E} = {la[i] : i \in E}
  BY <1>14, Zenon
<1>16. /\ DOMAIN disk' = {LayoutAddress(pos + i)' : i \in E}
       /\ \A i \in E : disk'[LayoutAddress(pos + i)'] = i
  BY <1>11, <1>12, <1>13, <1>14, <1>15, Zenon
<1>17. Stored(E)'
  BY <1>16, Zenon DEF Stored
<1> QED
  BY <1>13, <1>17, Zenon DEF Span, S

\* A piece that is moved adds its bytes to those moved before.
LEMMA PieceMoves ==
    ASSUME Given, CutInv, Tame, SameRequest,
           NEW k, NEW o, NEW b, NEW p, Piece(k, o, b, p), BlockOf(k) # 0,
           NEW D, D \subseteq 0 .. len - 1, Moved(D),
           \/ call = "read" /\ MoveRead(BlockOf(k), o, b, p)
           \/ call = "write" /\ MoveWrite(BlockOf(k), o, b, p),
           NEW E, E = D \cup Span(b, p)
    PROVE  Moved(E)'
<1> SUFFICES ASSUME Fits
             PROVE  (call' = "read" => Filled(E)') /\ (call' = "write" => Stored(E)')
  BY SameAsked, Zenon DEF Moved
<1>1. call' = call
  BY Zenon DEF SameRequest
<1>2. CASE call = "read" /\ MoveRead(BlockOf(k), o, b, p)
  <2>1. Filled(D)
    BY <1>2, Zenon DEF Moved
  <2>2. Filled(D \cup Span(b, p))'
    BY <1>2, <2>1, PieceRead, Zenon
  <2>3. E' = (D \cup Span(b, p))'
    BY Zenon DEF Span
  <2> QED
    BY <1>1, <1>2, <2>2, Zenon DEF Span
<1>3. CASE call = "write" /\ MoveWrite(BlockOf(k), o, b, p)
  <2>1. Stored(D)
    BY <1>3, Zenon DEF Moved
  <2>2. Stored(D \cup Span(b, p))'
    BY <1>3, <2>1, PieceWritten, Zenon
  <2> QED
    BY <1>1, <1>3, <2>2, Zenon DEF Span
<1> QED
  BY <1>2, <1>3, Zenon

-----------------------------------------------------------------------------
(* The arithmetic of a request                                             *)

\* Division by the block size is monotonic, in this form.
LEMMA BlockBelow ==
    ASSUME NEW a \in Nat, NEW q \in Int, a < q * BlockSize
    PROVE  a \div BlockSize \in Nat /\ a \div BlockSize < q
<1>1. PICK B \in Nat \ {0} : B = BlockSize
  BY Sizes
<1>2. PICK d, r : d = a \div B /\ r = a % B
  OBVIOUS
<1>3. d \in Nat /\ r \in 0 .. B - 1 /\ a = d * B + r
  BY <1>2
<1>4. PICK x \in Int, y \in Int : x = d * B /\ y = q * B
  BY <1>3
<1>5. CASE d = q
  BY <1>1, <1>3, <1>4, <1>5
<1>6. CASE q < d
  <2>1. y + B <= x
    BY <1>3, <1>4, <1>6, Multiples
  <2> QED
    BY <1>1, <1>3, <1>4, <2>1
<1> QED
  BY <1>1, <1>2, <1>3, <1>5, <1>6

\* The sizes of files
IsSize(z) == z \in Nat /\ z <= BlockSize * (U - 1) /\ z < Half

\* The last size is one block less than what 32 bits can number.
LEMMA LastSize == BlockSize * (U - 1) = (U - 1) * BlockSize /\ BlockSize * U = BlockSize * (U - 1) + BlockSize
BY Sizes

\* Positions and blocks of a file are not changed by the types they are kept in.
LEMMA FileNumbers ==
    ASSUME Given, NEW z, IsSize(z), NEW a \in Nat, a <= z
    PROVE  /\ Long(a) = a /\ a \div BlockSize \in 0 .. U - 1 /\ Word(a \div BlockSize) = a \div BlockSize
           /\ a < z => a \div BlockSize < U - 1
<1>1. PICK x \in Nat : x = BlockSize * (U - 1)
  BY Sizes
<1>2. a <= x /\ (a < z => a < x) /\ x = (U - 1) * BlockSize /\ BlockSize * U = x + BlockSize
  BY <1>1, LastSize DEF IsSize
<1>3. a \in 0 .. V - 1
  BY LongSizes DEF IsSize
<1>4. Long(a) = a
  BY <1>3, Longs, Zenon
<1>5. a < U * BlockSize
  BY <1>2, Sizes
<1>6. a \div BlockSize \in Nat /\ a \div BlockSize < U
  BY <1>5, Sizes, BlockBelow
<1>7. a \div BlockSize \in 0 .. U - 1
  BY <1>6, Sizes
<1>8. Word(a \div BlockSize) = a \div BlockSize
  BY <1>7, Words, Zenon
<1>9. ASSUME a < z PROVE a \div BlockSize < U - 1
  <2>1. a < (U - 1) * BlockSize /\ U - 1 \in Int
    BY <1>2, <1>9, Sizes
  <2> QED
    BY <2>1, BlockBelow, Zenon
<1> QED
  BY <1>4, <1>7, <1>8, <1>9, Zenon

\* Positions in a file are divided as they should be.
LEMMA Divided ==
    ASSUME Given, NEW z, IsSize(z), NEW p \in Nat, p <= z
    PROVE  Quotient(p) = p \div BlockSize /\ Remainder(p) = p % BlockSize
<1>1. Dividend(p) = p
  BY FileNumbers, Zenon DEF Dividend
<1>2. Quotient(p) = p \div BlockSize
  <2>1. ~(p < 0)
    OBVIOUS
  <2> QED
    BY <1>1, <2>1, Zenon DEF Quotient
<1>3. PICK B \in Nat \ {0} : B = BlockSize
  BY Sizes
<1>4. PICK q \in Int, c \in Int : q = p \div B /\ c = p % B /\ p = q * B + c
  <2>1. p \div B \in Int /\ p % B \in Int /\ p = (p \div B) * B + (p % B)
    OBVIOUS
  <2> QED
    BY <2>1
<1>5. p - B * q = c
  BY <1>4
<1> QED
  BY <1>1, <1>2, <1>3, <1>4, <1>5, Zenon DEF Remainder

\* What Begin computes for a position in the file or at its end.
LEMMA BeginNumbers ==
    ASSUME Given, NEW z, IsSize(z), NEW p \in Nat, NEW l \in Nat, p + l <= z,
           p = 0 /\ l = 0 => Wide
    PROVE  /\ Word(p \div BlockSize) = p \div BlockSize
           /\ l > 0 => Word(Long(p + l - 1) \div BlockSize) = (p + l - 1) \div BlockSize
           /\ l = 0 /\ p % BlockSize = 0 =>
                 Word(Word(Long(p + l - 1) \div BlockSize) - Word(p \div BlockSize) + 1) = 0
<1>1. PICK a \in Int : a = p + l - 1
  OBVIOUS
<1>2. p <= z /\ z \in Nat
  BY DEF IsSize
<1>3. Word(p \div BlockSize) = p \div BlockSize
  BY <1>2, FileNumbers, Zenon
<1>4. ASSUME l > 0 PROVE Word(Long(a) \div BlockSize) = a \div BlockSize
  <2>1. a \in Nat /\ a <= z
    BY <1>1, <1>2, <1>4
  <2> QED
    BY <2>1, FileNumbers, Zenon
<1>5. ASSUME l = 0, p % BlockSize = 0
      PROVE  Word(Word(Long(a) \div BlockSize) - Word(p \div BlockSize) + 1) = 0
  <2>1. PICK B \in Nat \ {0} : B = BlockSize
    BY Sizes
  <2>2. PICK q \in Nat : q = p \div B /\ p = q * B
    BY <1>5, <2>1
  <2>3. CASE p = 0
    <3>1. a = -1 /\ q = 0
      <4>1. a = -1
        BY <1>1, <1>5, <2>3
      <4>2. 0 \div B = 0
        OBVIOUS
      <4> QED
        BY <2>2, <2>3, <4>1, <4>2, Zenon
    <3>2. Word(Long(a) \div BlockSize) = U - 1 /\ Word(p \div BlockSize) = 0
      <4>1. Wide
        BY <1>5, <2>3, Zenon
      <4> QED
        BY <1>3, <2>1, <2>2, <3>1, <4>1, LastOfNothing, Zenon
    <3>3. U - 1 - 0 + 1 = U
      BY Sizes
    <3> QED
      BY <3>2, <3>3, Words, Zenon
  <2>4. CASE p # 0
    <3>1. a \in Nat /\ a <= z
      BY <1>1, <1>2, <1>5, <2>4
    <3>2. a \div B = q - 1
      <4>1. a = (q - 1) * B + (B - 1) /\ B - 1 \in 0 .. B - 1 /\ q - 1 \in Int
        BY <1>1, <1>5, <2>2
      <4> QED
        BY <4>1, DivUnique, Zenon
    <3>3. Word(Long(a) \div BlockSize) = q - 1 /\ Word(p \div BlockSize) = q
      BY <1>3, <2>1, <2>2, <3>1, <3>2, FileNumbers, Zenon
    <3>4. q - 1 - q + 1 = 0 /\ 0 \in 0 .. U - 1
      BY Sizes
    <3> QED
      BY <3>3, <3>4, Words, Zenon
  <2> QED
    BY <2>3, <2>4, Zenon
<1> QED
  BY <1>1, <1>3, <1>4, <1>5, Zenon

\* How the length is cut.
LEMMA CutNumbers ==
    ASSUME Given, NEW p \in Nat, p <= file.size, NEW n \in Nat, n > 0, p + n < V
    PROVE  /\ Cut(p, n) \in Nat /\ p + Cut(p, n) <= file.size
           /\ \/ Cut(p, n) = n /\ p + n <= file.size
              \/ Cut(p, n) = file.size - p /\ file.size < p + n
<1>1. PICK z \in Nat : z = file.size /\ z < Half
  BY FileFacts, Zenon
<1>3. p + n \in 0 .. V - 1 /\ z - p \in 0 .. V - 1 /\ z - p \in Nat
  BY <1>1, LongSizes
<1>5. Long(p + n) = p + n /\ Long(z - p) = z - p
  BY <1>3, Longs, Zenon
<1>6. Cut(p, n) = IF p + n > z THEN z - p ELSE n
  BY <1>1, <1>5, Zenon DEF Cut
<1> QED
  BY <1>1, <1>3, <1>6

-----------------------------------------------------------------------------
(* Steps of a request                                                      *)

Request == call \in {"read", "write"}

\* The number of turns that a difference of block numbers gives the loop
CountOf(n) == IF n >= Half THEN 0 ELSE n

\* A number that a long holds is not changed.
LEMMA LeftCount ==
    ASSUME Given, NEW n \in Nat, n = 0 \/ n < Half
    PROVE  CountOf(n) = n
BY LongSizes DEF CountOf

\* What is left for the loop after a step.
LEMMA LeftNow ==
    ASSUME width' = width
    PROVE  Left' = CountOf(Word(eb' - ib' + 1))
BY Zenon DEF Left, CountOf, Half, Word

\* A call that is about to begin has moved nothing.
LEMMA NothingMoved ==
    ASSUME mem = Nobody, disk = Nobody
    PROVE  Moved({})
<1>1. Filled({})
  BY DEF Filled, Nobody
<1>2. Stored({})
  <2>1. DOMAIN disk = {}
    BY Zenon DEF Nobody
  <2>2. {LayoutAddress(pos + i) : i \in {}} = {}
    BY Zenon
  <2> QED
    BY <2>1, <2>2, Zenon DEF Stored
<1> QED
  BY <1>1, <1>2, Zenon DEF Moved

\* A request is cut.
LEMMA BeginStep ==
    ASSUME Given, mem = Nobody, disk = Nobody,
           NEW op, NEW p \in Int, NEW n \in Nat, n > 0, Begin(op, p, n)
    PROVE  RequestInv'
<1> SUFFICES ASSUME 0 <= p, p <= file.size, p + n < V, file.size > 0 \/ Wide
             PROVE  CutInv' /\ panic' = "no" /\ step' = "head" /\ Start'
  <2>1. pos' = p /\ file' = file /\ want' = n /\ width' = width
    BY Zenon DEF Begin
  <2>2. Tame' => 0 <= p /\ p <= file.size /\ p + n < V /\ (file.size > 0 \/ Wide)
    BY <2>1, Zenon DEF Tame, Regular, Wide, V
  <2> QED
    BY <2>2, Zenon DEF RequestInv
<1>0. p \in Nat
  OBVIOUS
<1>1. /\ call' = op /\ pos' = p /\ want' = n /\ len' = Cut(p, n) /\ ib' = Word(p \div BlockSize)
      /\ width' = width
      /\ eb' = Word(Long(p + len' - 1) \div BlockSize) /\ off' = 0 /\ step' = "head"
      /\ file' = file /\ mem' = mem /\ disk' = disk /\ panic' = "no"
  <2>1. IsSize(file.size)
    BY FileFacts, Zenon DEF IsSize
  <2>2. Quotient(p) = p \div BlockSize
    BY <1>0, <2>1, Divided, Zenon
  <2> QED
    BY <2>2, Zenon DEF Begin, Running
<1>2. PICK l \in Nat : l = len'
  BY <1>0, <1>1, CutNumbers, Zenon
<1>3. /\ p + l <= file.size
      /\ \/ l = n /\ p + n <= file.size
         \/ l = file.size - p /\ file.size < p + n
  BY <1>0, <1>1, <1>2, CutNumbers, Zenon
<1>4. CutInv'
  <2>1. n \in Nat \ {0} /\ p \in Nat
    BY Sizes
  <2> QED
    BY <1>1, <1>2, <1>3, <2>1, Zenon DEF CutInv
<1>5. Moved({})'
  <2>1. (mem = Nobody)' /\ (disk = Nobody)'
    BY <1>1, Zenon DEF Nobody
  <2> QED
    BY <2>1, NothingMoved, PTL
<1>6. IsSize(file.size)
  BY FileFacts, Zenon DEF IsSize
<1>7. p = 0 /\ l = 0 => Wide
  <2>1. file.size \in Nat
    BY <1>6, Zenon DEF IsSize
  <2> QED
    BY <1>3, <2>1
<1>8. /\ l > 0 => ib' = p \div BlockSize /\ eb' = (p + l - 1) \div BlockSize
      /\ l = 0 /\ p % BlockSize = 0 => Word(eb' - ib' + 1) = 0
  <2>1. /\ Word(p \div BlockSize) = p \div BlockSize
        /\ l > 0 => Word(Long(p + l - 1) \div BlockSize) = (p + l - 1) \div BlockSize
        /\ l = 0 /\ p % BlockSize = 0 =>
              Word(Word(Long(p + l - 1) \div BlockSize) - Word(p \div BlockSize) + 1) = 0
    BY <1>0, <1>3, <1>6, <1>7, BeginNumbers, Zenon
  <2>2. ib' = Word(p \div BlockSize) /\ eb' = Word(Long(p + l - 1) \div BlockSize)
    BY <1>1, <1>2, Zenon
  <2> QED
    BY <2>1, <2>2, Zenon
<1>10. l = 0 /\ p % BlockSize = 0 => Left' = 0
  <2>1. Left' = CountOf(Word(eb' - ib' + 1))
    BY <1>1, LeftNow, Zenon
  <2>2. 0 \in Nat
    OBVIOUS
  <2> QED
    BY <1>8, <2>1, <2>2, LeftCount, Zenon
<1>9. Start'
  BY <1>1, <1>2, <1>5, <1>8, <1>10, Zenon DEF Start
<1> QED
  BY <1>1, <1>4, <1>9, Zenon

\* What the invariant says of a request that goes on.
LEMMA RequestFacts ==
    ASSUME Given, RequestInv, Request, Tame
    PROVE  /\ CutInv /\ pos \in Nat /\ len \in Nat /\ pos + len <= file.size
           /\ Asked = pos .. pos + len - 1 /\ IsSize(file.size)
           /\ Long(pos + len) = pos + len
           /\ Quotient(pos) = pos \div BlockSize /\ Remainder(pos) = pos % BlockSize
           /\ len < U /\ len < Half
<1>1. CutInv
  BY Zenon DEF RequestInv, Request
<1>2. pos \in Nat /\ len \in Nat
  BY <1>1, Zenon DEF CutInv
<1>3. Asked = pos .. pos + len - 1 /\ pos + len <= file.size
  BY <1>1, AskedIs, Zenon
<1>4. IsSize(file.size)
  BY FileFacts, Zenon DEF IsSize
<1>5. pos + len \in Nat /\ pos <= file.size
  BY <1>2, <1>3, <1>4 DEF IsSize
<1> QED
  BY <1>1, <1>2, <1>3, <1>4, <1>5, FileNumbers, Divided, ShortRequest, Zenon

\* A step that stops the kernel for a reason.
LEMMA StopStep ==
    ASSUME NEW why, why # "no", kpanic(why), SameRequest, Known, CutInv
    PROVE  RequestInv'
<1>1. panic' = why
  BY Zenon DEF kpanic
<1>2. Known' /\ CutInv'
  BY SameAsked, Zenon
<1> QED
  BY <1>1, <1>2, Zenon DEF RequestInv

\* An offset in a block has 32 bits.
LEMMA SmallBlocks == BlockSize < U
<1>1. PICK B \in Nat \ {0}, m \in Nat : B = BlockSize /\ m + 1 = NDir + Ptrs
  <2>1. NDir + Ptrs - 1 \in Nat /\ (NDir + Ptrs - 1) + 1 = NDir + Ptrs
    BY Sizes
  <2> QED
    BY <2>1, Sizes
<1>2. PICK x \in Nat : x = B * m
  OBVIOUS
<1>3. B * (m + 1) = x + B
  BY <1>2
<1>4. B * (m + 1) < U
  BY <1>1, Sizes, Zenon
<1> QED
  BY <1>1, <1>2, <1>3, <1>4, Sizes

\* There are no more blocks than bytes.
LEMMA FewerBlocks ==
    ASSUME NEW l \in Nat, NEW o \in Nat, NEW n \in Nat, NEW t \in 0 .. BlockSize - 1,
           o + n * BlockSize + t = l
    PROVE  n <= l
<1>1. PICK d \in Nat : BlockSize = d + 1
  <2>1. BlockSize - 1 \in Nat /\ BlockSize = (BlockSize - 1) + 1
    BY Sizes
  <2> QED
    BY <2>1
<1>2. PICK x \in Nat : x = n * d
  BY <1>1
<1>3. n * BlockSize = n + x
  BY <1>1, <1>2
<1> QED
  BY <1>1, <1>2, <1>3

\* The first piece.
LEMMA HeadNumbers ==
    ASSUME Given, NEW z, IsSize(z), NEW p \in Nat, NEW l \in Nat, l > 0, p + l <= z,
           NEW i, NEW e, i = p \div BlockSize, e = (p + l - 1) \div BlockSize
    PROVE  /\ i \in Nat /\ e \in Nat /\ i < U - 1
           /\ p % BlockSize \in 0 .. BlockSize - 1
           /\ p = i * BlockSize + (p % BlockSize)
           /\ (p % BlockSize) + l <= BlockSize => e = i
<1>1. PICK B \in Nat \ {0} : B = BlockSize
  BY Sizes
<1>2. i \in Nat /\ e \in Nat /\ p % B \in 0 .. B - 1 /\ p = i * B + (p % B)
  BY <1>1
<1>3. i < U - 1
  <2>1. p < z /\ p <= z
    BY DEF IsSize
  <2> QED
    BY <2>1, FileNumbers, Zenon
<1>4. ASSUME (p % B) + l <= B PROVE e = i
  <2>1. PICK r : r = (p % B) + l - 1
    OBVIOUS
  <2>2. PICK a \in Int : a = p + l - 1
    OBVIOUS
  <2>3. r \in 0 .. B - 1 /\ a = i * B + r /\ i \in Int
    BY <1>2, <1>4, <2>1, <2>2
  <2>4. a \div B = i
    BY <2>3, DivUnique, Zenon
  <2> QED
    BY <1>1, <2>2, <2>4, Zenon
<1> QED
  BY <1>1, <1>2, <1>3, <1>4, Zenon

\* The first piece is moved, or stops the kernel for a reason.
LEMMA HeadStep ==
    ASSUME Given, RequestInv, Request, Tame, Head1
    PROVE  RequestInv'
<1>1. /\ CutInv /\ pos \in Nat /\ len \in Nat /\ pos + len <= file.size
      /\ Asked = pos .. pos + len - 1 /\ IsSize(file.size)
      /\ Remainder(pos) = pos % BlockSize /\ len < U
  BY RequestFacts, Zenon
<1>2. /\ off = 0 /\ Moved({})
      /\ len > 0 => ib = pos \div BlockSize /\ eb = (pos + len - 1) \div BlockSize
      /\ len = 0 /\ pos % BlockSize = 0 => Left = 0
  BY Zenon DEF RequestInv, Request, Head1, Running, Start
<1>3. SameRequest /\ panic = "no"
  BY Zenon DEF Head1, data, SameRequest, Running
<1>4. CutInv'
  BY <1>1, <1>3, SameAsked, Zenon
<1>5. ASSUME panic' = "no", step' = "tail", Middle' PROVE RequestInv'
  BY <1>4, <1>5, Zenon DEF RequestInv
<1>6. CASE pos % BlockSize = 0
  <2>1. /\ off' = off /\ ib' = ib /\ eb' = eb /\ mem' = mem /\ disk' = disk /\ panic' = panic
        /\ step' = "tail"
    BY <1>1, <1>6, Zenon DEF Head1, Skip
  <2>2. 0 .. off' - 1 = {}
    BY <1>2, <2>1
  <2>3. Moved({})'
    BY <1>2, <1>3, <2>1, SameMoved, Zenon
  <2>4. Moved(0 .. off - 1)'
    BY <2>2, <2>3, Zenon
  <2>5. Left' = Left
    BY <1>3, <2>1, Zenon DEF Left, Word, SameRequest
  <2>6. pos' = pos /\ len' = len
    BY <1>3, Zenon DEF SameRequest
  <2>7. CASE len = 0
    BY <1>2, <1>6, <2>1, <2>4, <2>5, <2>6, <2>7, <1>3, <1>5 DEF Middle
  <2>8. CASE len > 0
    <3>1. ib \in Nat /\ pos = ib * BlockSize + (pos % BlockSize)
      BY <1>1, <1>2, <2>8, HeadNumbers, Zenon
    <3>2. pos + off = ib * BlockSize /\ off < len /\ off \in Nat
      BY <1>1, <1>2, <1>6, <2>8, <3>1, Sizes
    <3> QED
      BY <1>2, <1>3, <1>5, <2>1, <2>4, <2>6, <2>8, <3>1, <3>2, Zenon DEF Middle
  <2> QED
    BY <1>1, <2>7, <2>8
<1>7. CASE pos % BlockSize # 0
  <2>1. PICK h : h = HeadSize
    BY Zenon
  <2>2. PICK B \in Nat \ {0} : B = BlockSize
    BY Sizes
  <2>3. PICK r \in 0 .. B - 1 : r = pos % B
    BY <1>1
  <2>4. h = IF B - r > len THEN len ELSE B - r
    BY <1>1, <2>1, <2>2, <2>3, Zenon DEF HeadSize
  <2>5. CASE len = 0
    <3>1. h = 0
      BY <2>3, <2>4, <2>5
    <3>2. kpanic("size")
      BY <1>1, <1>7, <2>1, <3>1, Zenon DEF Head1, Transfer
    <3>3. pos = file.size
      <4>1. file.size \in Nat /\ want \in Nat \ {0}
        BY <1>1, Zenon DEF CutInv, IsSize
      <4> QED
        BY <1>1, <2>5, <4>1 DEF CutInv
    <3>4. Known
      BY <1>7, <3>3, Zenon DEF Known
    <3> QED
      BY <1>1, <1>3, <3>2, <3>4, StopStep, Zenon
  <2>6. CASE len > 0
    <3>1. /\ ib \in Nat /\ eb \in Nat /\ ib < U - 1 /\ pos = ib * B + r
          /\ r + len <= B => eb = ib
      <4>1. /\ ib \in Nat /\ eb \in Nat /\ ib < U - 1
            /\ pos = ib * BlockSize + (pos % BlockSize)
            /\ (pos % BlockSize) + len <= BlockSize => eb = ib
        BY <1>1, <1>2, <2>6, HeadNumbers
      <4> QED
        BY <2>2, <2>3, <4>1, Zenon
    <3>2. /\ h \in Nat /\ h > 0 /\ h <= B /\ r + h <= B /\ 0 + h <= len
          /\ \/ h = len /\ r + len <= B
             \/ h = B - r /\ h < len
      BY <1>1, <2>3, <2>4, <2>6
    <3>3. Piece(ib, r, 0, h)
      <4>1. pos + 0 = ib * B + r
        BY <1>1, <3>1
      <4>2. 0 \in Nat
        OBVIOUS
      <4> QED
        BY <2>2, <2>3, <3>1, <3>2, <4>1, <4>2, Zenon DEF Piece
    <3>4. ~(h = 0 \/ h > BlockSize)
      BY <2>2, <3>2
    <3>5. CASE BlockOf(ib) = 0
      <4>1. kpanic("block")
        BY <1>1, <1>7, <2>1, <3>4, <3>5, Zenon DEF Head1, Transfer
      <4>2. Known
        BY <1>1, <3>3, <3>5, PieceStops, Zenon
      <4> QED
        BY <1>1, <1>3, <4>1, <4>2, StopStep, Zenon
    <3>6. CASE BlockOf(ib) # 0
      <4>1. /\ \/ call = "read" /\ MoveRead(BlockOf(ib), r, 0, h)
               \/ call = "write" /\ MoveWrite(BlockOf(ib), r, 0, h)
            /\ off' = Word(off + h) /\ ib' = Word(ib + 1) /\ step' = "tail" /\ eb' = eb /\ panic' = panic
        <5>1. r \in 0 .. U - 1
          BY <2>2, <2>3, SmallBlocks, Sizes
        <5>2. Word(Remainder(pos)) = r
          BY <1>1, <2>2, <2>3, <5>1, Words, Zenon
        <5> QED
          BY <1>1, <1>7, <2>1, <2>2, <2>3, <3>4, <3>6, <5>2, Zenon DEF Head1, Transfer
      <4>2. off' = h /\ ib' = ib + 1
        <5>1. ib + 1 \in 0 .. U - 1 /\ off + h = h /\ h \in 0 .. U - 1
          BY <1>1, <1>2, <3>1, <3>2, Sizes
        <5> QED
          BY <4>1, <5>1, Words, Zenon
      <4>3. PICK D, E : D = {} /\ E = D \cup Span(0, h) /\ E = 0 .. h - 1
        <5>1. {} \cup Span(0, h) = 0 .. h - 1
          BY <3>2 DEF Span
        <5> QED
          BY <5>1, Zenon
      <4>4. Moved(E)'
        <5>1. D \subseteq 0 .. len - 1
          BY <4>3, Zenon
        <5> QED
          BY <1>1, <1>2, <1>3, <3>3, <3>6, <4>1, <4>3, <5>1, PieceMoves, Zenon
      <4>5. Moved(0 .. off - 1)'
        BY <4>2, <4>3, <4>4, Zenon
      <4>6. pos' = pos /\ len' = len
        BY <1>3, Zenon DEF SameRequest
      <4>7. CASE h = len /\ r + len <= B
        <5>1. ib' = eb' + 1 /\ eb' - ib' + 1 = 0 /\ eb' \in Nat
          BY <3>1, <4>1, <4>2, <4>7
        <5>2. Left' = 0
          <6>1. 0 \in 0 .. U - 1 /\ 0 \in Nat
            BY Sizes
          <6>2. Left' = CountOf(Word(eb' - ib' + 1))
            BY <1>3, LeftNow, Zenon DEF SameRequest
          <6> QED
            BY <5>1, <6>1, <6>2, Words, LeftCount, Zenon
        <5> QED
          BY <1>3, <1>5, <3>2, <4>1, <4>2, <4>5, <4>6, <4>7, <5>1, <5>2, Zenon DEF Middle
      <4>8. CASE h = B - r /\ h < len
        <5>1. pos + h = (ib + 1) * B /\ ib + 1 \in Nat
          BY <2>3, <3>1, <4>8
        <5>2. eb' = (pos' + len' - 1) \div BlockSize
          BY <1>2, <2>6, <4>1, <4>6, Zenon
        <5> QED
          BY <1>3, <1>5, <2>2, <3>2, <4>1, <4>2, <4>5, <4>6, <4>8, <5>1, <5>2, Zenon DEF Middle
      <4> QED
        BY <3>2, <4>7, <4>8, Zenon
    <3> QED
      BY <3>5, <3>6, Zenon
  <2> QED
    BY <1>1, <2>5, <2>6
<1> QED
  BY <1>6, <1>7, Zenon

\* Where the last piece lies.
TailParts(p, l, o, i, e, t) ==
    /\ e \in Nat /\ i <= e /\ e < U - 1 /\ t \in 0 .. BlockSize - 1
    /\ t # 0 => /\ p + (l - t) = e * BlockSize + 0 /\ l - t \in Nat /\ l - t + t <= l
                /\ o + (e - i) * BlockSize + t = l
    /\ t = 0 => o + (e - i + 1) * BlockSize + 0 = l

\* The last piece.
LEMMA TailNumbers ==
    ASSUME Given, NEW z, IsSize(z), NEW p \in Nat, NEW l \in Nat, p + l <= z,
           NEW o \in Nat, o < l, NEW i \in Nat, NEW e, NEW t,
           p + o = i * BlockSize, e = (p + l - 1) \div BlockSize, t = (p + l) % BlockSize
    PROVE  TailParts(p, l, o, i, e, t)
<1>1. PICK B \in Nat \ {0} : B = BlockSize
  BY Sizes
<1>2. PICK a \in Nat, s \in 0 .. B - 1 : a = p + l - 1 /\ s = a % B
  OBVIOUS
<1>3. e \in Nat /\ s \in 0 .. B - 1 /\ a = e * B + s
  BY <1>1, <1>2
<1>4. e < U - 1
  <2>1. a < z /\ a <= z
    BY <1>2 DEF IsSize
  <2> QED
    BY <1>2, <2>1, FileNumbers, Zenon
<1>5. PICK x \in Int, y \in Int : x = i * B /\ y = e * B
  BY <1>3
<1>6. i <= e
  <2> SUFFICES ASSUME e < i PROVE FALSE
    BY <1>3
  <2>1. y + B <= x
    BY <1>3, <1>5, Multiples
  <2> QED
    BY <1>1, <1>2, <1>3, <1>5, <2>1
<1>7. PICK c \in Int : c = p + l
  OBVIOUS
<1>8. CASE s = B - 1
  <2>1. c = (e + 1) * B + 0 /\ 0 \in 0 .. B - 1 /\ e + 1 \in Int
    BY <1>2, <1>3, <1>7, <1>8
  <2>2. t = 0
    <3>1. c % B = 0
      <4>1. PICK q \in Int, r \in 0 .. B - 1 : q = e + 1 /\ r = 0
        BY <2>1, Zenon
      <4>2. c = q * B + r
        BY <2>1, <4>1, Zenon
      <4>3. c % B = r
        BY <4>2, DivUnique, Zenon
      <4> QED
        BY <4>1, <4>3, Zenon
    <3> QED
      BY <1>1, <1>7, <3>1, Zenon
  <2>3. (e - i + 1) * B = y - x + B
    BY <1>3, <1>5
  <2>4. o + (e - i + 1) * B + 0 = l
    BY <1>1, <1>2, <1>3, <1>5, <1>8, <2>3
  <2> QED
    BY <1>1, <1>3, <1>4, <1>6, <2>1, <2>2, <2>4 DEF TailParts
<1>9. CASE s # B - 1
  <2>1. c = e * B + (s + 1) /\ s + 1 \in 0 .. B - 1 /\ e \in Int
    BY <1>2, <1>3, <1>7, <1>9
  <2>2. t = s + 1
    <3>1. c % B = s + 1
      BY <2>1, DivUnique, Zenon
    <3> QED
      BY <1>1, <1>7, <3>1, Zenon
  <2>3. (e - i) * B = y - x /\ x <= y
    <3>1. (e - i) * B = y - x
      BY <1>3, <1>5
    <3>2. CASE i < e
      BY <1>3, <1>5, <3>2, Multiples
    <3>3. CASE i = e
      BY <1>5, <3>3
    <3> QED
      BY <1>3, <1>6, <3>1, <3>2, <3>3
  <2>4. o + (e - i) * B + t = l /\ p + (l - t) = e * B + 0 /\ l - t \in Nat /\ l - t + t <= l
    BY <1>1, <1>2, <1>3, <1>5, <2>2, <2>3
  <2> QED
    BY <1>1, <1>3, <1>4, <1>6, <2>1, <2>2, <2>4 DEF TailParts
<1> QED
  BY <1>8, <1>9

\* What the loop over whole blocks starts from.
LEMMA RestStart ==
    ASSUME Given, CutInv, Tame, SameRequest, CutInv',
           panic' = "no", step' = "whole",
           NEW n \in Nat, NEW t \in 0 .. BlockSize - 1, Rest(n, t)'
    PROVE  RequestInv'
BY Zenon DEF RequestInv

\* So is the last.
LEMMA TailStep ==
    ASSUME Given, RequestInv, Request, Tame, Tail1
    PROVE  RequestInv'
<1>1. /\ CutInv /\ pos \in Nat /\ len \in Nat /\ pos + len <= file.size
      /\ IsSize(file.size) /\ Long(pos + len) = pos + len /\ len < U /\ len < Half
  BY RequestFacts, Zenon
<1>2. Middle
  BY Zenon DEF RequestInv, Request, Tail1, Running
<1>3. SameRequest /\ panic = "no" /\ pos' = pos /\ len' = len /\ width' = width
  BY Zenon DEF Tail1, data, SameRequest, Running
<1>4. CutInv'
  BY <1>1, <1>3, SameAsked, Zenon
<1>5. PICK t : t = TailSize /\ t = (pos + len) % BlockSize
  BY <1>1, Zenon DEF TailSize
<1>6. off \in Nat /\ Moved(0 .. off - 1)
  BY <1>2, Zenon DEF Middle
<1>7. PICK D : D = 0 .. off - 1
  BY Zenon
\* Nothing is left
<1>8. ASSUME off = len, Left = 0, ~(t # 0 /\ ib <= eb) PROVE RequestInv'
  <2>1. /\ off' = off /\ ib' = ib /\ eb' = eb /\ mem' = mem /\ disk' = disk /\ panic' = panic
        /\ step' = "whole"
    BY <1>5, <1>8, Zenon DEF Tail1, Skip
  <2>2. Left' = 0
    BY <1>3, <1>8, <2>1, Zenon DEF Left, Word
  <2>3. D = (0 .. off' - 1) \cup (len' - 0 .. len' - 1)
    BY <1>1, <1>3, <1>6, <1>7, <2>1
  <2>4. Moved(D)'
    BY <1>3, <1>6, <1>7, <2>1, SameMoved, Zenon
  <2>5. Moved((0 .. off - 1) \cup (len - 0 .. len - 1))'
    BY <2>3, <2>4, Zenon
  <2>6. off' + 0 * BlockSize + 0 = len' /\ 0 \in Nat /\ 0 \in 0 .. BlockSize - 1 /\ ~(0 > 0)
    BY <1>3, <1>6, <1>8, <2>1, Sizes
  <2>7. Rest(0, 0)'
    BY <1>6, <2>1, <2>2, <2>5, <2>6, Zenon DEF Rest
  <2> QED
    BY <1>1, <1>3, <1>4, <2>1, <2>6, <2>7, RestStart, Zenon
<1>9. CASE len = 0 /\ off = 0 /\ Left = 0 /\ pos % BlockSize = 0
  <2>1. t = 0
    <3>1. pos + len = pos
      BY <1>1, <1>9
    <3> QED
      BY <1>5, <1>9, <3>1, Zenon
  <2> QED
    BY <1>8, <1>9, <2>1, Zenon
<1>10. CASE off = len /\ Left = 0 /\ ib = eb + 1 /\ eb \in Nat
  <2>1. ~(ib <= eb)
    BY <1>10
  <2> QED
    BY <1>8, <1>10, <2>1, Zenon
<1>11. CASE off < len /\ ib \in Nat /\ pos + off = ib * BlockSize /\ eb = (pos + len - 1) \div BlockSize
  <2>1. /\ eb \in Nat /\ ib <= eb /\ eb < U - 1 /\ t \in 0 .. BlockSize - 1
        /\ t # 0 => /\ pos + (len - t) = eb * BlockSize + 0 /\ len - t \in Nat /\ len - t + t <= len
                    /\ off + (eb - ib) * BlockSize + t = len
        /\ t = 0 => off + (eb - ib + 1) * BlockSize + 0 = len
    <3>1. TailParts(pos, len, off, ib, eb, t)
      BY <1>1, <1>5, <1>6, <1>11, TailNumbers, Zenon
    <3> QED
      BY <3>1, Zenon DEF TailParts
  <2>2. CASE t = 0
    <3>1. /\ off' = off /\ ib' = ib /\ eb' = eb /\ mem' = mem /\ disk' = disk /\ panic' = panic
          /\ step' = "whole"
      BY <1>5, <2>2, Zenon DEF Tail1, Skip
    <3>2. PICK n \in Nat : n = eb - ib + 1
      BY <1>11, <2>1
    <3>3. n \in 0 .. U - 1 /\ eb = ib + n - 1
      BY <1>11, <2>1, <3>2, Sizes
    <3>4. Left' = n
      <4>1. Left' = CountOf(Word(eb - ib + 1))
        BY <1>3, <3>1, LeftNow, Zenon
      <4>2. off + n * BlockSize + 0 = len /\ 0 \in 0 .. BlockSize - 1
        BY <2>1, <2>2, <3>2, Sizes
      <4>3. n <= len
        BY <1>1, <1>6, <4>2, FewerBlocks, Zenon
      <4>4. n < Half
        BY <1>1, <4>3, LongSizes
      <4> QED
        BY <3>2, <3>3, <4>1, <4>4, Words, LeftCount, Zenon
    <3>5. D = (0 .. off' - 1) \cup (len' - 0 .. len' - 1)
      BY <1>1, <1>3, <1>6, <1>7, <3>1
    <3>6. Moved(D)'
      BY <1>3, <1>6, <1>7, <3>1, SameMoved, Zenon
    <3>7. Moved((0 .. off - 1) \cup (len - 0 .. len - 1))'
      BY <3>5, <3>6, Zenon
    <3>8. off' + n * BlockSize + 0 = len' /\ 0 \in 0 .. BlockSize - 1
      BY <1>3, <2>1, <2>2, <3>1, <3>2, Sizes
    <3>9. Rest(n, 0)'
      BY <1>3, <1>6, <1>11, <3>1, <3>3, <3>4, <3>7, <3>8, Zenon DEF Rest
    <3> QED
      BY <1>1, <1>3, <1>4, <3>1, <3>8, <3>9, RestStart, Zenon
  <2>3. CASE t # 0
    <3>1. PICK b \in Nat : b = len - t
      BY <2>1, <2>3, Zenon
    <3>2. Piece(eb, 0, b, t)
      <4>1. t \in Nat /\ t > 0 /\ 0 + t <= BlockSize /\ 0 \in 0 .. BlockSize - 1
        BY <2>1, <2>3, Sizes
      <4> QED
        BY <2>1, <2>3, <3>1, <4>1, Zenon DEF Piece
    <3>3. ~(t = 0 \/ t > BlockSize)
      BY <2>1, <2>3, Sizes
    <3>4. CASE BlockOf(eb) = 0
      <4>1. kpanic("block")
        BY <1>5, <2>1, <3>3, <3>4, Zenon DEF Tail1, Transfer
      <4>2. Known
        BY <1>1, <3>2, <3>4, PieceStops, Zenon
      <4> QED
        BY <1>1, <1>3, <4>1, <4>2, StopStep, Zenon
    <3>5. CASE BlockOf(eb) # 0
      <4>1. /\ \/ call = "read" /\ MoveRead(BlockOf(eb), 0, b, t)
               \/ call = "write" /\ MoveWrite(BlockOf(eb), 0, b, t)
            /\ eb' = Word(eb - 1) /\ step' = "whole" /\ ib' = ib /\ off' = off /\ panic' = panic
        BY <1>5, <2>1, <3>1, <3>3, <3>5, Zenon DEF Tail1, Transfer
      <4>2. PICK E : E = D \cup Span(b, t)
        BY Zenon
      <4>3. E = (0 .. off' - 1) \cup (len' - t .. len' - 1)
        <5>1. Span(b, t) = len - t .. len - 1
          BY <1>1, <2>1, <3>1 DEF Span
        <5> QED
          BY <1>3, <1>7, <4>1, <4>2, <5>1, Zenon
      <4>4. Moved(E)'
        <5>1. D \subseteq 0 .. len - 1 /\ Moved(D)
          BY <1>1, <1>6, <1>7, <1>11
        <5> QED
          BY <1>1, <1>3, <3>2, <3>5, <4>1, <4>2, <5>1, PieceMoves, Zenon
      <4>5. Moved((0 .. off - 1) \cup (len - t .. len - 1))'
        BY <4>3, <4>4, Zenon
      <4>6. PICK n \in Nat : n = eb - ib
        BY <1>11, <2>1
      <4>7. Left' = n /\ (n > 0 => eb' = ib' + n - 1)
        <5>1. Left' = CountOf(Word(eb' - ib + 1))
          BY <1>3, <4>1, LeftNow, Zenon
        <5>4. CountOf(n) = n /\ CountOf(0) = 0
          <6>1. off + n * BlockSize + t = len
            BY <2>1, <2>3, <4>6, Zenon
          <6>2. n <= len
            BY <1>1, <1>6, <2>1, <6>1, FewerBlocks, Zenon
          <6>3. n < Half /\ 0 \in Nat
            BY <1>1, <6>2, LongSizes
          <6> QED
            BY <6>3, LeftCount, Zenon
        <5>2. CASE eb = 0
          <6>1. eb' = U - 1 /\ n = 0
            <7>1. eb - 1 = -1 /\ n = 0
              BY <1>11, <2>1, <4>6, <5>2
            <7> QED
              BY <4>1, <7>1, Words, Zenon
          <6>2. U - 1 - ib + 1 = U /\ ~(0 > 0)
            BY <1>11, <2>1, <5>2, Sizes
          <6> QED
            BY <5>1, <5>4, <6>1, <6>2, Words, Zenon
        <5>3. CASE eb # 0
          <6>1. eb - 1 \in 0 .. U - 1 /\ eb - 1 - ib + 1 = n /\ n \in 0 .. U - 1 /\ eb - 1 = ib + n - 1
            BY <1>11, <2>1, <4>6, <5>3, Sizes
          <6> QED
            BY <4>1, <5>1, <5>4, <6>1, Words, Zenon
        <5> QED
          BY <5>2, <5>3, Zenon
      <4>8. off' + n * BlockSize + t = len'
        BY <1>3, <2>1, <2>3, <4>1, <4>6, Zenon
      <4>9. Rest(n, t)'
        BY <1>3, <1>6, <1>11, <4>1, <4>5, <4>7, <4>8, Zenon DEF Rest
      <4> QED
        BY <1>1, <1>3, <1>4, <2>1, <4>1, <4>9, RestStart, Zenon
    <3> QED
      BY <3>4, <3>5, Zenon
  <2> QED
    BY <2>2, <2>3, Zenon
<1> QED
  BY <1>2, <1>9, <1>10, <1>11, Zenon DEF Middle

\* Where a whole block lies, and what is left behind it.
BlockParts(p, l, o, i, n, t) ==
    /\ p + o = i * BlockSize + 0 /\ o + BlockSize <= l
    /\ i + 1 \in 0 .. U - 1 /\ n - 1 \in Nat
    /\ o + BlockSize + (n - 1) * BlockSize + t = l
    /\ p + (o + BlockSize) = (i + 1) * BlockSize

\* A whole block.
LEMMA BlockNumbers ==
    ASSUME Given, NEW z, IsSize(z), NEW p \in Nat, NEW l \in Nat, p + l <= z,
           NEW o \in Nat, NEW i \in Nat, NEW n \in Nat \ {0}, NEW t \in 0 .. BlockSize - 1,
           o + n * BlockSize + t = l, p + o = i * BlockSize
    PROVE  BlockParts(p, l, o, i, n, t)
<1>1. PICK B \in Nat \ {0} : B = BlockSize
  BY Sizes
<1>2. PICK m \in Nat : m = n - 1
  BY SMT
<1>3. PICK x \in Nat : x = m * B
  BY <1>1, <1>2
<1>4. n * B = x + B
  BY <1>2, <1>3
<1>5. o + B + x + t = l
  BY <1>1, <1>3, <1>4
<1>6. i < U - 1
  <2>1. PICK a \in Nat, r \in 0 .. B - 1 : a = p + o /\ r = 0
    BY <1>1
  <2>2. a < z /\ a <= z
    BY <1>1, <1>3, <1>5, <2>1 DEF IsSize
  <2>3. a \div BlockSize < U - 1
    BY <2>1, <2>2, FileNumbers, Zenon
  <2>4. a = i * B + r /\ a \in Int /\ i \in Int
    BY <1>1, <2>1
  <2>5. a \div B = i
    BY <2>4, DivUnique, Zenon
  <2> QED
    BY <1>1, <2>3, <2>5, Zenon
<1>7. i + 1 \in 0 .. U - 1
  BY <1>6, Sizes
<1>8. (i + 1) * B = i * B + B
  BY <1>1
<1>9. p + (o + B) = (i + 1) * B /\ p + o = i * B + 0 /\ o + B <= l
  BY <1>1, <1>5, <1>8, <1>3
<1> QED
  BY <1>1, <1>2, <1>3, <1>5, <1>7, <1>9, Zenon DEF BlockParts

\* So is each block in between.
LEMMA WholeStep ==
    ASSUME Given, RequestInv, Request, Tame, Whole
    PROVE  RequestInv'
<1>1. /\ CutInv /\ pos \in Nat /\ len \in Nat /\ pos + len <= file.size
      /\ IsSize(file.size) /\ len < U /\ len < Half
  BY RequestFacts, Zenon
<1>2. PICK n \in Nat, t \in 0 .. BlockSize - 1 : Rest(n, t)
  BY Zenon DEF RequestInv, Request, Whole, Running
<1>3. SameRequest /\ panic = "no" /\ pos' = pos /\ len' = len /\ width' = width
  BY Zenon DEF Whole, data, SameRequest, Running
<1>4. CutInv'
  BY <1>1, <1>3, SameAsked, Zenon
<1>5. /\ off \in Nat /\ off + n * BlockSize + t = len /\ Left = n
      /\ Moved((0 .. off - 1) \cup (len - t .. len - 1))
      /\ n > 0 => ib \in Nat /\ pos + off = ib * BlockSize /\ eb = ib + n - 1
  BY <1>2, Zenon DEF Rest
<1>6. PICK D : D = (0 .. off - 1) \cup (len - t .. len - 1)
  BY Zenon
<1>7. CASE n = 0
  <2>1. /\ mem' = mem /\ disk' = disk /\ panic' = "no" /\ step' = "done"
    BY <1>3, <1>5, <1>7, Zenon DEF Whole, Skip
  <2>2. D = 0 .. len - 1
    <3>1. off + t = len
      BY <1>1, <1>5, <1>7, Sizes
    <3> QED
      BY <1>1, <1>5, <1>6, <3>1
  <2>3. Moved(D)'
    BY <1>3, <1>5, <1>6, <2>1, SameMoved, Zenon
  <2>4. Moved(0 .. len - 1)'
    BY <1>3, <2>2, <2>3, Zenon
  <2> QED
    BY <1>4, <2>1, <2>4, Zenon DEF RequestInv
<1>8. CASE n # 0
  <2>1. n > 0 /\ n \in Nat \ {0}
    BY <1>8
  <2>2. ib \in Nat /\ pos + off = ib * BlockSize /\ eb = ib + n - 1
    BY <1>5, <2>1, Zenon
  <2>3. BlockParts(pos, len, off, ib, n, t)
    BY <1>1, <1>5, <2>1, <2>2, BlockNumbers, Zenon
  <2>4. Piece(ib, 0, off, BlockSize)
    <3>1. BlockSize \in Nat /\ BlockSize > 0 /\ 0 + BlockSize <= BlockSize /\ 0 \in 0 .. BlockSize - 1
      BY Sizes
    <3> QED
      BY <1>5, <2>2, <2>3, <3>1, Zenon DEF Piece, BlockParts
  <2>5. ~(BlockSize = 0 \/ BlockSize > BlockSize)
    BY Sizes
  <2>6. CASE BlockOf(ib) = 0
    <3>1. kpanic("block")
      BY <1>5, <1>8, <2>5, <2>6, Zenon DEF Whole, Transfer
    <3>2. Known
      BY <1>1, <2>4, <2>6, PieceStops, Zenon
    <3> QED
      BY <1>1, <1>3, <3>1, <3>2, StopStep, Zenon
  <2>7. CASE BlockOf(ib) # 0
    <3>1. /\ \/ call = "read" /\ MoveRead(BlockOf(ib), 0, off, BlockSize)
             \/ call = "write" /\ MoveWrite(BlockOf(ib), 0, off, BlockSize)
          /\ ib' = Word(ib + 1) /\ off' = off + BlockSize /\ eb' = eb /\ step' = step
          /\ panic' = "no" /\ step = "whole"
      <4>1. off + BlockSize <= len
        BY <2>3, Zenon DEF BlockParts
      <4>2. off + BlockSize \in 0 .. U - 1
        BY <1>1, <1>5, <4>1, Sizes
      <4>3. Word(off + BlockSize) = off + BlockSize
        BY <4>2, Words, Zenon
      <4> QED
        BY <1>3, <1>5, <1>8, <2>5, <2>7, <4>3, Zenon DEF Whole, Transfer
    <3>2. ib' = ib + 1
      BY <2>3, <3>1, Words, Zenon DEF BlockParts
    <3>3. PICK E : E = D \cup Span(off, BlockSize)
      BY Zenon
    <3>4. E = (0 .. off' - 1) \cup (len' - t .. len' - 1) /\ D \subseteq 0 .. len - 1
      <4>1. PICK B \in Nat \ {0} : B = BlockSize
        BY Sizes
      <4>2. PICK b \in Nat, l \in Nat : b = off /\ l = len /\ b + B <= l
        BY <1>1, <1>5, <2>3, <4>1, Zenon DEF BlockParts
      <4>3. (0 .. b - 1) \cup (b .. b + B - 1) = 0 .. b + B - 1
        BY <4>2
      <4>4. Span(off, BlockSize) = b .. b + B - 1
        BY <4>1, <4>2, Zenon DEF Span
      <4>5. E = (0 .. b + B - 1) \cup (l - t .. l - 1)
        BY <1>6, <3>3, <4>2, <4>3, <4>4, Zenon
      <4>6. D \subseteq 0 .. l - 1
        <5>1. 0 .. b - 1 \subseteq 0 .. l - 1
          BY <4>2
        <5>2. l - t \in Nat
          <6>1. n * BlockSize \in Nat
            BY <4>1
          <6> QED
            BY <1>5, <4>1, <4>2, <6>1
        <5>3. l - t .. l - 1 \subseteq 0 .. l - 1
          BY <5>2
        <5> QED
          BY <1>6, <4>2, <5>1, <5>3, Zenon
      <4>7. off' = b + B /\ len' = l /\ len = l
        BY <1>3, <3>1, <4>1, <4>2, Zenon
      <4>8. 0 .. off' - 1 = 0 .. b + B - 1
        BY <4>7
      <4>9. len' - t .. len' - 1 = l - t .. l - 1
        BY <4>7, Zenon
      <4> QED
        BY <4>5, <4>6, <4>7, <4>8, <4>9, Zenon
    <3>5. Moved(E)'
      <4>1. Moved(D) /\ D \subseteq 0 .. len - 1
        BY <1>5, <1>6, <3>4, Zenon
      <4> QED
        BY <1>1, <1>3, <2>4, <2>7, <3>1, <3>3, <4>1, PieceMoves, Zenon
    <3>6. Moved((0 .. off - 1) \cup (len - t .. len - 1))'
      BY <3>4, <3>5, Zenon
    <3>7. PICK m \in Nat : m = n - 1
      BY <2>1
    <3>8. Left' = m
      <4>1. Left' = CountOf(Word(eb - ib' + 1))
        BY <1>3, <3>1, LeftNow, Zenon
      <4>2. eb - ib' + 1 = m
        BY <2>1, <2>2, <3>2, <3>7
      <4>3. n <= len
        BY <1>1, <1>5, FewerBlocks, Zenon
      <4>4. m \in 0 .. U - 1 /\ m < Half
        BY <1>1, <3>7, <4>3, Sizes, LongSizes
      <4> QED
        BY <4>1, <4>2, <4>4, Words, LeftCount, Zenon
    <3>9. /\ off' \in Nat /\ off' + m * BlockSize + t = len'
          /\ m > 0 => ib' \in Nat /\ pos' + off' = ib' * BlockSize /\ eb' = ib' + m - 1
      <4>1. off' \in Nat /\ ib' \in Nat /\ eb' = ib' + m - 1
        BY <1>5, <2>2, <3>1, <3>2, <3>7, Sizes
      <4>2. off' + m * BlockSize + t = len' /\ pos' + off' = ib' * BlockSize
        BY <1>3, <2>3, <3>1, <3>2, <3>7, Zenon DEF BlockParts
      <4> QED
        BY <4>1, <4>2, Zenon
    <3>10. Rest(m, t)'
      BY <3>6, <3>8, <3>9, Zenon DEF Rest
    <3> QED
      BY <1>1, <1>3, <1>4, <3>1, <3>7, <3>10, RestStart, Zenon
  <2> QED
    BY <2>6, <2>7, Zenon
<1> QED
  BY <1>7, <1>8, Zenon

-----------------------------------------------------------------------------
(* Directories                                                             *)

Entry == [name : Seq(STRING), ino : Nat]

\* A set of numbers that is not empty has a least one.
LEMMA LeastExists ==
    ASSUME NEW X \in SUBSET Nat, X # {}
    PROVE  \E k \in X : \A j \in X : k <= j
<1>1. PICK k \in X : \A j \in X : <<j, k>> \notin OpToRel(<, Nat)
  BY NatLessThanWellFounded, WFMin, Zenon
<1>2. ASSUME NEW j \in X PROVE k <= j
  <2>1. ~(j < k)
    BY <1>1 DEF OpToRel
  <2> QED
    BY <2>1
<1> QED
  BY <1>1, <1>2, Zenon

\* What holds at 0 and goes from each number to the next holds up to the last.
LEMMA Induct ==
    ASSUME NEW N \in Nat, NEW B, 0 \in B, \A k \in 1 .. N : k - 1 \in B => k \in B
    PROVE  0 .. N \subseteq B
<1> DEFINE Out == {k \in 0 .. N : k \notin B}
<1> SUFFICES ASSUME Out # {} PROVE FALSE
  OBVIOUS
<1>1. PICK k \in Out : \A j \in Out : k <= j
  <2>1. Out \in SUBSET Nat
    OBVIOUS
  <2> HIDE DEF Out
  <2> QED
    BY <2>1, LeastExists
<1>2. k \in 0 .. N /\ k \notin B /\ k # 0
  OBVIOUS
<1>3. k \in 1 .. N /\ k - 1 \in 0 .. N /\ ~(k <= k - 1)
  BY <1>2
<1>4. k - 1 \notin Out
  <2> HIDE DEF Out
  <2> QED
    BY <1>1, <1>3
<1>5. k - 1 \in B
  BY <1>3, <1>4
<1> QED
  BY <1>2, <1>3, <1>5

\* The entries of the first n blocks of a directory
Blocks(f, d, n) ==
    /\ f \in [0 .. n -> Seq(Entry)] /\ f[0] = << >>
    /\ \A k \in 1 .. n : f[k] = f[k - 1] \o d[k]

\* They can be put together block after block.
LEMMA BlocksExist ==
    ASSUME NEW d \in Seq(Seq(Entry))
    PROVE  \E f : Blocks(f, d, Len(d))
<1>1. PICK N \in Nat : N = Len(d)
  OBVIOUS
<1>2. \A k \in 1 .. N : d[k] \in Seq(Entry)
  BY <1>1
<1> DEFINE B == {m \in 0 .. N : \E f : Blocks(f, d, m)}
<1>3. 0 \in B
  <2>1. PICK f : f = [k \in 0 .. 0 |-> << >>]
    BY Zenon
  <2>2. << >> \in Seq(Entry)
    OBVIOUS
  <2>3. f \in [0 .. 0 -> Seq(Entry)] /\ f[0] = << >> /\ 1 .. 0 = {} /\ 0 \in 0 .. N
    BY <2>1, <2>2
  <2>4. Blocks(f, d, 0)
    BY <2>3, Zenon DEF Blocks
  <2> QED
    BY <2>3, <2>4, Zenon
<1>4. ASSUME NEW m \in 1 .. N, m - 1 \in B PROVE m \in B
  <2>1. PICK f : Blocks(f, d, m - 1)
    BY <1>4, Zenon
  <2>2. /\ f \in [0 .. m - 1 -> Seq(Entry)] /\ f[0] = << >>
        /\ \A k \in 1 .. m - 1 : f[k] = f[k - 1] \o d[k]
    BY <2>1, Zenon DEF Blocks
  <2>3. PICK g : g = f[m - 1] \o d[m]
    BY Zenon
  <2>4. m - 1 \in 0 .. m - 1 /\ f[m - 1] \in Seq(Entry) /\ m \in 0 .. N
    BY <2>2
  <2>5. g \in Seq(Entry)
    BY <1>2, <2>3, <2>4
  <2>6. PICK h : h = [k \in 0 .. m |-> IF k < m THEN f[k] ELSE g]
    BY Zenon
  <2>7. h \in [0 .. m -> Seq(Entry)] /\ h[0] = << >>
    BY <2>2, <2>5, <2>6
  <2>8. ASSUME NEW k \in 1 .. m PROVE h[k] = h[k - 1] \o d[k]
    <3>1. k - 1 \in 0 .. m /\ k \in 0 .. m /\ k - 1 < m
      OBVIOUS
    <3>2. h[k - 1] = f[k - 1]
      BY <2>6, <3>1, Zenon
    <3>3. CASE k = m
      <4>1. ~(m < m)
        OBVIOUS
      <4> QED
        BY <2>3, <2>6, <3>1, <3>2, <3>3, <4>1, Zenon
    <3>4. CASE k < m
      <4>1. k \in 1 .. m - 1
        BY <3>4
      <4> QED
        BY <2>2, <2>6, <3>1, <3>2, <3>4, <4>1, Zenon
    <3>5. k = m \/ k < m
      OBVIOUS
    <3> QED
      BY <3>3, <3>4, <3>5, Zenon
  <2>9. Blocks(h, d, m)
    BY <2>7, <2>8, Zenon DEF Blocks
  <2> QED
    BY <2>4, <2>9, Zenon
<1> HIDE DEF B
<1>5. N \in B
  <2>1. 0 .. N \subseteq B
    BY <1>3, <1>4, Induct
  <2>2. N \in 0 .. N
    BY <1>1
  <2> QED
    BY <2>1, <2>2, Zenon
<1> QED
  BY <1>1, <1>5, Zenon DEF B

\* The entries of a directory are entries.
LEMMA EntriesAre ==
    ASSUME NEW d \in Seq(Seq(Entry))
    PROVE  Entries(d) \in Seq(Entry)
<1>1. PICK N \in Nat : N = Len(d)
  OBVIOUS
<1> DEFINE Eq(f) == f = [k \in 0 .. N |-> IF k = 0 THEN << >> ELSE f[k - 1] \o d[k]]
<1>2. PICK f : Blocks(f, d, N)
  BY <1>1, BlocksExist, Zenon
<1>3. /\ f \in [0 .. N -> Seq(Entry)] /\ f[0] = << >>
      /\ \A k \in 1 .. N : f[k] = f[k - 1] \o d[k]
  BY <1>2, Zenon DEF Blocks
<1>4. Eq(f)
  <2>1. ASSUME NEW k \in 0 .. N PROVE f[k] = IF k = 0 THEN << >> ELSE f[k - 1] \o d[k]
    <3>1. k = 0 \/ k \in 1 .. N
      OBVIOUS
    <3> QED
      BY <1>3, <3>1, Zenon
  <2>2. f = [k \in 0 .. N |-> f[k]]
    BY <1>3, Zenon
  <2>3. [k \in 0 .. N |-> f[k]] = [k \in 0 .. N |-> IF k = 0 THEN << >> ELSE f[k - 1] \o d[k]]
    BY <2>1, Zenon
  <2> QED
    BY <2>2, <2>3, Zenon
<1>5. PICK h : h = CHOOSE g : Eq(g)
  BY Zenon
<1>6. Eq(h)
  <2> HIDE DEF Eq
  <2> QED
    BY <1>4, <1>5, Zenon
<1>7. Entries(d) = h[N]
  BY <1>1, <1>5, Zenon DEF Entries
<1>8. \A k \in 0 .. N : h[k] = IF k = 0 THEN << >> ELSE h[k - 1] \o d[k]
  BY <1>6, Zenon
<1> DEFINE B == {k \in 0 .. N : h[k] = f[k]}
<1>9. 0 \in B
  <2>1. 0 \in 0 .. N
    OBVIOUS
  <2> QED
    BY <1>3, <1>8, <2>1, Zenon
<1>10. ASSUME NEW k \in 1 .. N, k - 1 \in B PROVE k \in B
  <2>1. k \in 0 .. N /\ k # 0
    OBVIOUS
  <2> QED
    BY <1>3, <1>8, <1>10, <2>1, Zenon
<1> HIDE DEF B
<1>11. N \in B /\ N \in 0 .. N
  <2>1. 0 .. N \subseteq B
    BY <1>9, <1>10, Induct
  <2>2. N \in 0 .. N
    OBVIOUS
  <2> QED
    BY <2>1, <2>2, Zenon
<1>12. h[N] = f[N]
  BY <1>11, Zenon DEF B
<1> QED
  BY <1>3, <1>7, <1>11, <1>12, Zenon

\* What is assumed of a directory.
LEMMA DirFacts ==
    ASSUME dir \in Dirs
    PROVE  /\ All \in Seq(Entry) /\ Len(All) \in Nat /\ DOMAIN All = 1 .. Len(All)
           /\ \A e1, e2 \in Range(All) : e1.name = e2.name => e1 = e2
<1>1. dir \in Seq(Seq(Entry)) /\ \A e1, e2 \in Range(All) : e1.name = e2.name => e1 = e2
  BY VolumeAssumption, Zenon DEF VolumeAssumption, All, Entry
<1>2. All \in Seq(Entry)
  BY <1>1, EntriesAre, Zenon DEF All
<1> QED
  BY <1>1, <1>2

\* Sequence t is made of the elements of s from a to b
IsPart(t, s, a, b) ==
    /\ t \in Seq(Range(s))
    /\ Range(t) = {s[k] : k \in a .. b}
    /\ t = << >> <=> b < a

\* A part of a sequence.
LEMMA PartOf ==
    ASSUME NEW S, NEW s \in Seq(S), NEW a \in Nat \ {0}, NEW b \in Nat, b <= Len(s)
    PROVE  IsPart(SubSeq(s, a, b), s, a, b)
<1>1. PICK t : t = SubSeq(s, a, b)
  BY Zenon
<1>2. t = [i \in 1 .. (IF a <= b THEN b - a + 1 ELSE 0) |-> s[a + i - 1]]
  BY <1>1
<1>3. PICK n \in Nat : n = IF a <= b THEN b - a + 1 ELSE 0
  <2>1. (IF a <= b THEN b - a + 1 ELSE 0) \in Nat
    OBVIOUS
  <2> QED
    BY <2>1, Zenon
<1>4. t = [i \in 1 .. n |-> s[a + i - 1]]
  BY <1>2, <1>3, Zenon
<1>5. DOMAIN t = 1 .. n /\ \A i \in 1 .. n : t[i] = s[a + i - 1]
  BY <1>4, Zenon
<1>6. ASSUME NEW i \in 1 .. n PROVE a + i - 1 \in DOMAIN s /\ a + i - 1 \in a .. b
  BY <1>3
<1>7. t \in Seq(Range(s))
  <2>1. ASSUME NEW i \in 1 .. n PROVE s[a + i - 1] \in Range(s)
    BY <1>6, Zenon DEF Range
  <2> QED
    BY <1>4, <2>1
<1>8. Range(t) = {s[k] : k \in a .. b}
  <2>1. ASSUME NEW x \in Range(t) PROVE x \in {s[k] : k \in a .. b}
    BY <1>5, <1>6, Zenon DEF Range
  <2>2. ASSUME NEW k \in a .. b PROVE s[k] \in Range(t)
    <3>1. PICK i \in 1 .. n : k = a + i - 1
      <4>1. k - a + 1 \in 1 .. n /\ k = a + (k - a + 1) - 1
        BY <1>3
      <4> QED
        BY <4>1
    <3> QED
      BY <1>5, <3>1, Zenon DEF Range
  <2> QED
    BY <2>1, <2>2, Zenon
<1>9. t = << >> <=> b < a
  BY <1>3, <1>4
<1> QED
  BY <1>1, <1>7, <1>8, <1>9, Zenon DEF IsPart

\* The elements of two sequences, one after the other.
AreBoth(x, s, t, m, n) ==
    /\ Len(x) = m + n
    /\ \A k \in 1 .. m + n : x[k] = IF k <= m THEN s[k] ELSE t[k - m]

\* The elements of a concatenation.
LEMMA BothElements ==
    ASSUME NEW S, NEW s \in Seq(S), NEW t \in Seq(S), NEW m, NEW n, m = Len(s), n = Len(t)
    PROVE  s \o t \in Seq(S) /\ AreBoth(s \o t, s, t, m, n)
BY DEF AreBoth

\* Two parts, one after the other.
LEMMA PartsJoin ==
    ASSUME NEW S, NEW s \in Seq(S), NEW p \in Nat, NEW b \in Nat, p <= b, b <= Len(s)
    PROVE  SubSeq(s, 1, p) \o SubSeq(s, p + 1, b) = SubSeq(s, 1, b)
<1>1. PICK u, v, w : u = SubSeq(s, 1, p) /\ v = SubSeq(s, p + 1, b) /\ w = SubSeq(s, 1, b)
  BY Zenon
<1>2. PICK m \in Nat : m = b - p
  OBVIOUS
<1>3. u \in Seq(S) /\ Len(u) = p /\ \A i \in 1 .. p : u[i] = s[i]
  BY <1>1
<1>4. v \in Seq(S) /\ Len(v) = m /\ \A i \in 1 .. m : v[i] = s[p + i]
  BY <1>1, <1>2
<1>5. w \in Seq(S) /\ Len(w) = b /\ \A i \in 1 .. b : w[i] = s[i]
  BY <1>1
<1>6. PICK x : x = u \o v
  BY Zenon
<1>7. /\ x \in Seq(S) /\ Len(x) = b
      /\ \A i \in 1 .. b : x[i] = IF i <= p THEN u[i] ELSE v[i - p]
  <2>1. PICK l \in Nat, r \in Nat : l = Len(u) /\ r = Len(v)
    BY <1>3, <1>4
  <2>2. /\ x \in Seq(S) /\ Len(x) = l + r
        /\ \A i \in 1 .. l + r : x[i] = IF i <= l THEN u[i] ELSE v[i - l]
    <3>1. u \o v \in Seq(S) /\ AreBoth(u \o v, u, v, l, r)
      BY <1>3, <1>4, <2>1, BothElements, Zenon
    <3> QED
      BY <1>6, <3>1, Zenon DEF AreBoth
  <2>3. l = p /\ l + r = b
    BY <1>2, <1>3, <1>4, <2>1
  <2> QED
    BY <2>2, <2>3, Zenon
<1>8. ASSUME NEW i \in 1 .. b PROVE x[i] = w[i]
  <2>1. CASE i <= p
    BY <1>3, <1>5, <1>7, <2>1
  <2>2. CASE ~(i <= p)
    <3>1. i - p \in 1 .. m /\ p + (i - p) = i
      BY <1>2, <2>2
    <3> QED
      BY <1>4, <1>5, <1>7, <2>2, <3>1, Zenon
  <2> QED
    BY <2>1, <2>2, Zenon
<1>9. x = w
  BY <1>5, <1>7, <1>8
<1> QED
  BY <1>1, <1>6, <1>9, Zenon

\* x is a sequence of elements of S, and has those of s and of t
Joins(x, S, s, t) == x \in Seq(S) /\ Range(x) = Range(s) \cup Range(t)

\* Two sequences, one after the other.
LEMMA RangeOfBoth ==
    ASSUME NEW S, NEW s \in Seq(S), NEW t \in Seq(S)
    PROVE  Joins(s \o t, S, s, t)
<1> SUFFICES s \o t \in Seq(S) /\ Range(s \o t) = Range(s) \cup Range(t)
  BY Zenon DEF Joins
<1>1. PICK m \in Nat, n \in Nat : m = Len(s) /\ n = Len(t)
  OBVIOUS
<1>2. PICK u : u = s \o t
  BY Zenon
<1>3. /\ DOMAIN u = 1 .. m + n /\ DOMAIN s = 1 .. m /\ DOMAIN t = 1 .. n
      /\ \A k \in 1 .. m + n : u[k] = IF k <= m THEN s[k] ELSE t[k - m]
  BY <1>1, <1>2
<1>4. ASSUME NEW k \in DOMAIN u PROVE u[k] \in Range(s) \cup Range(t)
  <2>1. CASE k <= m
    <3>1. k \in DOMAIN s
      BY <1>3, <2>1
    <3> QED
      BY <1>3, <2>1, <3>1, Zenon DEF Range
  <2>2. CASE ~(k <= m)
    <3>1. k - m \in DOMAIN t
      BY <1>3, <2>2
    <3> QED
      BY <1>3, <2>2, <3>1, Zenon DEF Range
  <2> QED
    BY <2>1, <2>2, Zenon
<1>5. ASSUME NEW k \in DOMAIN s PROVE s[k] \in Range(u)
  <2>1. k \in 1 .. m + n /\ k <= m
    BY <1>3
  <2> QED
    BY <1>3, <2>1, Zenon DEF Range
<1>6. ASSUME NEW k \in DOMAIN t PROVE t[k] \in Range(u)
  <2>1. PICK j \in 1 .. m + n : k = j - m /\ ~(j <= m)
    <3>1. m + k \in 1 .. m + n /\ k = (m + k) - m /\ ~(m + k <= m)
      BY <1>3
    <3> QED
      BY <3>1
  <2> QED
    BY <1>3, <2>1, Zenon DEF Range
<1>7. Range(u) = Range(s) \cup Range(t)
  BY <1>4, <1>5, <1>6, Zenon DEF Range
<1>8. u \in Seq(S)
  BY <1>2
<1> QED
  BY <1>2, <1>7, <1>8, Zenon

\* A lookup finds the entry, unless another one's name begins the name.
LEMMA FindsIt ==
    ASSUME dir \in Dirs, NEW n \in Names,
           \A e \in Range(All) : IsBeginning(e.name, n) => e.name = n
    PROVE  Range(Find(dir, n)) = {e \in Range(All) : e.name = n}
<1> DEFINE hits == {k \in DOMAIN All : Matches(All[k], n)}
           c == CHOOSE k \in hits : \A j \in hits : k <= j
<1>1. Find(dir, n) = IF hits = {} THEN << >> ELSE <<All[c]>>
  BY Zenon DEF Find, All
<1>2. IsBeginning(n, n)
  <2>1. n \in Seq(STRING)
    BY VolumeAssumption, Zenon DEF VolumeAssumption
  <2>2. Len(n) <= Len(n) /\ SubSeq(n, 1, Len(n)) = n
    BY <2>1
  <2> QED
    BY <2>2, Zenon DEF IsBeginning
<1>3. \A k \in DOMAIN All : k \in hits <=> All[k].name = n
  BY <1>2, Zenon DEF Matches, Range
<1>4. CASE hits = {}
  <2>1. Range(<< >>) = {}
    BY DEF Range
  <2>2. {e \in Range(All) : e.name = n} = {}
    BY <1>3, <1>4, Zenon DEF Range
  <2> QED
    BY <1>1, <1>4, <2>1, <2>2, Zenon
<1>5. CASE hits # {}
  <2>1. hits \in SUBSET Nat
    BY DirFacts
  <2>2. c \in hits
    <3> HIDE DEF hits
    <3>1. \E k \in hits : \A j \in hits : k <= j
      BY <1>5, <2>1, LeastExists, Zenon
    <3> QED
      BY <3>1, Zenon
  <2>3. PICK e : e = All[c] /\ e \in Range(All) /\ e.name = n
    BY <1>3, <2>2, Zenon DEF Range
  <2>4. Range(<<e>>) = {e}
    BY DEF Range
  <2>5. {x \in Range(All) : x.name = n} = {e}
    BY <2>3, DirFacts, Zenon
  <2> QED
    BY <1>1, <1>5, <2>3, <2>4, <2>5, Zenon
<1> QED
  BY <1>4, <1>5, Zenon

\* The first call shows the first entries.
LEMMA FirstCall ==
    ASSUME dir \in Dirs, NEW n \in Nat \ {0}
    PROVE  Shown(Listed(0, n), 1, n) /\ (Listed(0, n) = << >> <=> Len(All) <= 0)
<1>1. PICK N \in Nat : N = Len(All)
  BY DirFacts, Zenon
<1>2. PICK b \in Nat : b = Least(n, N) /\ b <= N /\ (b < 1 <=> N <= 0)
  <2>1. Least(n, N) \in Nat /\ Least(n, N) <= N /\ (Least(n, N) < 1 <=> N <= 0)
    BY DEF Least
  <2> QED
    BY <2>1, Zenon
<1>3. Listed(0, n) = SubSeq(All, 1, b)
  <2>1. 0 + n = n /\ 0 + 1 = 1
    OBVIOUS
  <2> QED
    BY <1>1, <1>2, <2>1, Zenon DEF Listed, All, Least
<1>4. /\ SubSeq(All, 1, b) \in Seq(Range(All))
      /\ Range(SubSeq(All, 1, b)) = {All[k] : k \in 1 .. b}
      /\ SubSeq(All, 1, b) = << >> <=> b < 1
  <2>1. PICK a \in Nat \ {0} : a = 1
    OBVIOUS
  <2>2. IsPart(SubSeq(All, a, b), All, a, b)
    BY <1>1, <1>2, DirFacts, PartOf, Zenon
  <2> QED
    BY <2>1, <2>2, Zenon DEF IsPart
<1>5. Least(1 - 1 + n, N) = b
  <2>1. 1 - 1 + n = n
    OBVIOUS
  <2> QED
    BY <1>2, <2>1, Zenon
<1> QED
  BY <1>1, <1>2, <1>3, <1>4, <1>5, Zenon DEF Shown

\* Each call shows the next entry, and those that there is room for.
LEMMA NextCall ==
    ASSUME dir \in Dirs, NEW n \in Nat \ {0}, NEW p \in Nat \ {0}, p <= Len(All),
           NEW f, Shown(f, p, n)
    PROVE  /\ Shown(f \o Listed(p, n), p + 1, n)
           /\ Listed(p, n) = << >> <=> Len(All) <= p
<1>1. PICK N \in Nat : N = Len(All)
  BY DirFacts, Zenon
<1>2. PICK b \in Nat : b = Least(p + n, N) /\ b <= N /\ (b < p + 1 <=> N <= p)
  <2>1. Least(p + n, N) \in Nat /\ Least(p + n, N) <= N /\ (Least(p + n, N) < p + 1 <=> N <= p)
    BY <1>1 DEF Least
  <2> QED
    BY <2>1, Zenon
<1>3. PICK t : t = SubSeq(All, p + 1, b)
  BY Zenon
<1>4. Listed(p, n) = t
  BY <1>1, <1>2, <1>3, Zenon DEF Listed, All, Least
<1>5. /\ t \in Seq(Range(All))
      /\ Range(t) = {All[k] : k \in p + 1 .. b}
      /\ t = << >> <=> b < p + 1
  <2>1. PICK a \in Nat \ {0} : a = p + 1
    OBVIOUS
  <2>2. IsPart(SubSeq(All, a, b), All, a, b)
    BY <1>1, <1>2, DirFacts, PartOf, Zenon
  <2> QED
    BY <1>3, <2>1, <2>2, Zenon DEF IsPart
<1>6. f \in Seq(Range(All)) /\ Range(f) = {All[k] : k \in 1 .. Least(p - 1 + n, N)}
  BY <1>1, Zenon DEF Shown
<1>7. f \o t \in Seq(Range(All)) /\ Range(f \o t) = Range(f) \cup Range(t)
  <2>1. PICK S : S = Range(All)
    BY Zenon
  <2>2. f \in Seq(S) /\ t \in Seq(S)
    BY <1>5, <1>6, <2>1, Zenon
  <2>3. f \o t \in Seq(S) /\ Range(f \o t) = Range(f) \cup Range(t)
    <3>1. Joins(f \o t, S, f, t)
      BY <2>2, RangeOfBoth, Zenon
    <3> QED
      BY <3>1, Zenon DEF Joins
  <2> QED
    BY <2>1, <2>3, Zenon
<1>8. Range(f \o t) = {All[k] : k \in 1 .. b}
  <2>1. PICK c \in Nat : c = Least(p - 1 + n, N)
    <3>1. Least(p - 1 + n, N) \in Nat
      BY DEF Least
    <3> QED
      BY <3>1, Zenon
  <2>2. 1 .. b = (1 .. c) \cup (p + 1 .. b)
    <3>1. c <= b /\ (c = N \/ (c = p - 1 + n /\ p <= c))
      BY <1>2, <2>1 DEF Least
    <3> QED
      BY <1>2, <3>1
  <2>3. {All[k] : k \in 1 .. b} = {All[k] : k \in 1 .. c} \cup {All[k] : k \in p + 1 .. b}
    <3>1. PICK X, Y, Z : X = 1 .. b /\ Y = 1 .. c /\ Z = p + 1 .. b /\ X = Y \cup Z
      BY <2>2, Zenon
    <3>2. {All[k] : k \in X} = {All[k] : k \in Y} \cup {All[k] : k \in Z}
      BY <3>1, Zenon
    <3> QED
      BY <3>1, <3>2, Zenon
  <2> QED
    BY <1>5, <1>6, <1>7, <2>1, <2>3, Zenon
<1>9. ASSUME n = 1 PROVE f \o t = SubSeq(All, 1, Least(p + 1, N))
  <2>1. Least(p, N) = p
    BY <1>1 DEF Least
  <2>2. f = SubSeq(All, 1, p)
    BY <1>1, <1>9, <2>1, Zenon DEF Shown
  <2>3. PICK s \in Seq(Entry) : s = All /\ N = Len(s)
    BY <1>1, DirFacts, Zenon
  <2>4. b = Least(p + 1, N)
    BY <1>2, <1>9, Zenon
  <2>5. p <= b /\ p <= N
    BY <1>1, <2>4 DEF Least
  <2>6. SubSeq(s, 1, p) \o SubSeq(s, p + 1, b) = SubSeq(s, 1, b)
    BY <1>2, <2>3, <2>5, PartsJoin, Zenon
  <2> QED
    BY <1>3, <2>2, <2>3, <2>4, <2>6, Zenon
<1>10. PICK q : q = p + 1 /\ Least(q - 1 + n, N) = b
  <2>1. PICK q : q = p + 1
    BY Zenon
  <2>2. q - 1 + n = p + n
    BY <2>1
  <2> QED
    BY <1>2, <2>1, <2>2, Zenon
<1>11. Shown(f \o t, q, n)
  BY <1>1, <1>7, <1>8, <1>9, <1>10, Zenon DEF Shown
<1> QED
  BY <1>1, <1>2, <1>4, <1>5, <1>10, <1>11, Zenon

\* A listing goes on in the same directory.
LEMMA SameDir ==
    ASSUME dir' = dir
    PROVE  /\ All' = All
           /\ \A f, p, n : Shown(f, p, n)' = Shown(f, p, n)
<1>1. All' = All
  BY Zenon DEF All
<1>2. \A f, p, n : Shown(f, p, n)' = Shown(f, p, n)
  BY <1>1, Zenon DEF Shown
<1> QED
  BY <1>1, <1>2, Zenon

\* A call of getdents.
LEMMA GetdentsStep ==
    ASSUME Ext2Inv, NEW n \in 1 .. MaxRoom, Getdents(n)
    PROVE  ListInv'
<1>1. /\ dir' = dir /\ call' = "list" /\ want' = n /\ found' = found \o Listed(pos, n)
      /\ pos' = pos + 1 /\ step' = IF Listed(pos, n) = << >> THEN "done" ELSE "more"
      /\ panic' = "no" /\ dir \in Dirs
  BY Zenon DEF Getdents, Running, Ext2Inv
<1>2. n \in Nat \ {0}
  BY Ext2Assumption DEF Ext2Assumption
<1>3. PICK N \in Nat : N = Len(All)
  BY <1>1, DirFacts, Zenon
<1>4. /\ pos \in Nat /\ Shown(found \o Listed(pos, n), pos + 1, n)
      /\ Listed(pos, n) = << >> <=> N <= pos
  <2>1. CASE call = "idle"
    <3>1. pos = 0 /\ found = << >>
      BY <2>1, Zenon DEF Ext2Inv, IdleInv
    <3>2. PICK z, u : z = 0 /\ u = 1 /\ z \in Nat /\ u = z + 1
      OBVIOUS
    <3>3. PICK l : l = Listed(0, n)
      BY Zenon
    <3>4. Shown(l, 1, n) /\ (l = << >> <=> N <= 0)
      BY <1>1, <1>2, <1>3, <3>3, FirstCall, Zenon
    <3>5. << >> \o l = l
      <4>1. PICK S : S = Range(All)
        BY Zenon
      <4>2. l \in Seq(S)
        BY <3>4, <4>1, Zenon DEF Shown
      <4> QED
        BY <4>2
    <3>6. Shown(<< >> \o l, 1, n)
      BY <3>4, <3>5, Zenon
    <3> QED
      BY <3>1, <3>2, <3>3, <3>4, <3>6, Zenon
  <2>2. CASE call = "list" /\ step = "more" /\ want = n
    <3>1. pos \in Nat \ {0} /\ Shown(found, pos, n) /\ pos <= Len(All)
      BY <2>2, Zenon DEF Ext2Inv, ListInv
    <3>2. /\ Shown(found \o Listed(pos, n), pos + 1, n)
          /\ Listed(pos, n) = << >> <=> N <= pos
      BY <1>1, <1>2, <1>3, <3>1, NextCall, Zenon
    <3> QED
      BY <3>1, <3>2, Zenon
  <2> QED
    BY <2>1, <2>2, Zenon DEF Getdents
<1>5. Shown(found, pos, want)'
  <2>1. Shown(found', pos', want')
    BY <1>1, <1>4, Zenon
  <2> QED
    BY <1>1, <2>1, SameDir, Zenon DEF Shown
<1>6. Len(All)' = N
  BY <1>1, <1>3, SameDir, Zenon
<1>7. CASE N <= pos
  <2>1. pos' > N /\ pos' \in Nat \ {0} /\ step' = "done"
    BY <1>1, <1>4, <1>7
  <2> QED
    BY <1>1, <1>2, <1>5, <1>6, <2>1, Zenon DEF ListInv
<1>8. CASE ~(N <= pos)
  <2>1. pos' <= N /\ pos' \in Nat \ {0} /\ step' = "more"
    BY <1>1, <1>4, <1>8
  <2> QED
    BY <1>1, <1>2, <1>5, <1>6, <2>1, Zenon DEF ListInv
<1> QED
  BY <1>7, <1>8, Zenon

\* The invariant holds where the program starts.
LEMMA Ext2Begins == Init => Ext2Inv
<1>1. 0 \in Int
  OBVIOUS
<1> QED
  BY <1>1, Zenon DEF Init, Ext2Inv, RequestInv, FindInv, ListInv, IdleInv, Given

\* A step of a read or write that has begun.
LEMMA PieceStep ==
    ASSUME Ext2Inv, Head1 \/ Tail1 \/ Whole
    PROVE  Ext2Inv'
<1>1. /\ call' = call /\ file' = file /\ dir' = dir /\ pos' = pos /\ width' = width
      /\ step \in {"head", "tail", "whole"} /\ SameRequest
  BY Zenon DEF Head1, Tail1, Whole, data, SameRequest
<1>2. Request
  BY <1>1, Zenon DEF Ext2Inv, FindInv, ListInv, IdleInv, Request
<1>3. RequestInv'
  <2>1. CASE Tame
    BY <1>2, <2>1, HeadStep, TailStep, WholeStep, Zenon DEF Ext2Inv
  <2>2. CASE ~Tame
    BY <1>1, <2>2, SameAsked, Zenon DEF RequestInv
  <2> QED
    BY <2>1, <2>2, Zenon
<1>4. FindInv' /\ ListInv' /\ IdleInv'
  BY <1>1, <1>2, Zenon DEF FindInv, ListInv, IdleInv, Request
<1>5. panic' # "no" => step' \in {"head", "tail", "whole"}
  BY <1>1, Zenon DEF Head1, Tail1, Whole, Transfer, Skip, kpanic, Running
<1> QED
  BY <1>1, <1>3, <1>4, <1>5, Zenon DEF Ext2Inv, Given

\* Every step keeps the invariant.
LEMMA Ext2Steps == Ext2Inv /\ [Next]_vars => Ext2Inv'
<1> SUFFICES ASSUME Ext2Inv, [Next]_vars PROVE Ext2Inv'
  OBVIOUS
<1>1. ASSUME NEW op \in {"read", "write"}, NEW p \in -Near .. file.size + BlockSize,
             NEW n \in 1 .. MaxLen \cup {2 ^ width - k : k \in 1 .. Near},
             n > 0, Begin(op, p, n)
      PROVE  Ext2Inv'
  <2>1. Given /\ mem = Nobody /\ disk = Nobody
    BY <1>1, Zenon DEF Ext2Inv, IdleInv, Begin
  <2>2. p \in Int
    OBVIOUS
  <2>6. n \in Nat
    <3>1. n \in 1 .. MaxLen \cup {V - k : k \in 1 .. Near}
      BY Zenon DEF V
    <3> QED
      BY <1>1, <2>1, <3>1, LongSizes
  <2>3. RequestInv'
    BY <1>1, <2>1, <2>2, <2>6, BeginStep, Zenon
  <2>4. call' = op /\ width' = width /\ file' = file /\ dir' = dir /\ panic' = "no" /\ pos' = p
    BY <1>1, Zenon DEF Begin, Running
  <2>5. FindInv' /\ ListInv' /\ IdleInv'
    BY <2>4, Zenon DEF FindInv, ListInv, IdleInv
  <2> QED
    BY <2>1, <2>2, <2>3, <2>4, <2>5, Zenon DEF Ext2Inv, Given
<1>2. CASE Head1 \/ Tail1 \/ Whole
  BY <1>2, PieceStep, Zenon
<1>3. CASE Return
  <2>1. /\ call' = "idle" /\ step' = "none" /\ mem' = Nobody /\ disk' = Nobody /\ pos' = 0
        /\ found' = << >> /\ width' = width /\ file' = file /\ dir' = dir /\ panic' = "no"
    BY <1>3, Zenon DEF Return, Running
  <2>2. RequestInv' /\ FindInv' /\ ListInv'
    BY <2>1, Zenon DEF RequestInv, FindInv, ListInv
  <2>3. IdleInv'
    BY <2>1, Zenon DEF IdleInv, Nobody
  <2>4. 0 \in Int
    OBVIOUS
  <2> QED
    BY <2>1, <2>2, <2>3, <2>4, Zenon DEF Ext2Inv, Given
<1>4. ASSUME NEW n \in Names, Finddir(n) PROVE Ext2Inv'
  <2>1. /\ call' = "find" /\ name' = n /\ found' = Find(dir, n) /\ step' = "done"
        /\ width' = width /\ file' = file /\ dir' = dir /\ panic' = "no" /\ pos' = pos
    BY <1>4, Zenon DEF Finddir, Running
  <2>2. FindInv'
    BY <2>1, Zenon DEF FindInv
  <2>3. RequestInv' /\ ListInv' /\ IdleInv'
    BY <2>1, Zenon DEF RequestInv, ListInv, IdleInv
  <2> QED
    BY <2>1, <2>2, <2>3, Zenon DEF Ext2Inv, Given
<1>5. ASSUME NEW n \in 1 .. MaxRoom, Getdents(n) PROVE Ext2Inv'
  <2>1. call' = "list" /\ width' = width /\ file' = file /\ dir' = dir /\ panic' = "no"
    BY <1>5, Zenon DEF Getdents, Running
  <2>2. RequestInv' /\ FindInv' /\ IdleInv'
    BY <2>1, Zenon DEF RequestInv, FindInv, IdleInv
  <2>3. pos' \in Int
    <3>1. pos \in Int /\ pos' = pos + 1
      BY <1>5, Zenon DEF Ext2Inv, Getdents
    <3> QED
      BY <3>1
  <2> QED
    BY <1>5, <2>1, <2>2, <2>3, GetdentsStep, Zenon DEF Ext2Inv, Given
<1>6. CASE UNCHANGED vars
  <2>1. SameRequest /\ dir' = dir /\ UNCHANGED <<mem, disk>>
        /\ step' = step /\ panic' = panic /\ ib' = ib /\ eb' = eb /\ off' = off
        /\ name' = name /\ found' = found
        /\ file' = file /\ call' = call /\ pos' = pos /\ len' = len /\ want' = want
        /\ width' = width
    BY <1>6, Zenon DEF vars, SameRequest
  <2>2. RequestInv'
    <3>1. Left' = Left
      BY <2>1, Zenon DEF Left, Word
    <3>2. \A D : Moved(D) => Moved(D)'
      BY <2>1, SameMoved, Zenon
    <3>3. Start => Start'
      BY <2>1, <3>1, <3>2, Zenon DEF Start
    <3>4. Middle => Middle'
      BY <2>1, <3>1, <3>2, Zenon DEF Middle
    <3>5. \A n, t : Rest(n, t) => Rest(n, t)'
      BY <2>1, <3>1, <3>2, Zenon DEF Rest
    <3> QED
      BY <2>1, <3>2, <3>3, <3>4, <3>5, SameAsked, Zenon DEF RequestInv, Ext2Inv
  <2>3. FindInv'
    BY <2>1, Zenon DEF FindInv, Ext2Inv
  <2>4. ListInv'
    BY <2>1, SameDir, Zenon DEF ListInv, Ext2Inv, Shown
  <2>5. IdleInv'
    BY <2>1, Zenon DEF IdleInv, Ext2Inv, Nobody
  <2> QED
    BY <2>1, <2>2, <2>3, <2>4, <2>5, Zenon DEF Ext2Inv, Given
<1> QED
  BY <1>1, <1>2, <1>3, <1>4, <1>5, <1>6, Zenon DEF Next, Stopped

-----------------------------------------------------------------------------
(* Theorems                                                                *)

\* The invariant holds in every reachable state.
THEOREM Ext2Safe == Spec => []Ext2Inv
BY Ext2Begins, Ext2Steps, PTL DEF Spec

\* What a read or a write has moved when it returns.
LEMMA DataFollows == Ext2Inv => DataExact
<1> SUFFICES ASSUME Ext2Inv, Request, step = "done", Tame, Fits
             PROVE  /\ Asked = pos .. pos + len - 1
                    /\ call = "read" => mem = [i \in 0 .. len - 1 |-> LayoutAddress(pos + i)]
                    /\ call = "write" => /\ DOMAIN disk = {LayoutAddress(x) : x \in Asked}
                                         /\ \A x \in Asked : disk[LayoutAddress(x)] = x - pos
  BY Zenon DEF DataExact, Request, Tame
<1>1. Asked = pos .. pos + len - 1 /\ pos \in Nat /\ len \in Nat
  BY RequestFacts, Zenon DEF Ext2Inv
<1>2. Moved(0 .. len - 1)
  BY Zenon DEF Ext2Inv, RequestInv, Request
<1>3. call = "read" => mem = [i \in 0 .. len - 1 |-> LayoutAddress(pos + i)]
  BY <1>2, Zenon DEF Moved, Filled
<1>4. CASE call = "write"
  <2>1. /\ DOMAIN disk = {LayoutAddress(pos + i) : i \in 0 .. len - 1}
        /\ \A i \in 0 .. len - 1 : disk[LayoutAddress(pos + i)] = i
    BY <1>2, <1>4, Zenon DEF Moved, Stored
  <2>2. ASSUME NEW x \in Asked PROVE x - pos \in 0 .. len - 1 /\ pos + (x - pos) = x
    BY <1>1
  <2>3. ASSUME NEW i \in 0 .. len - 1 PROVE pos + i \in Asked
    BY <1>1
  <2>4. {LayoutAddress(pos + i) : i \in 0 .. len - 1} = {LayoutAddress(x) : x \in Asked}
    <3>1. ASSUME NEW x \in Asked PROVE LayoutAddress(x) \in {LayoutAddress(pos + i) : i \in 0 .. len - 1}
      BY <2>2, Zenon
    <3> QED
      BY <2>3, <3>1, Zenon
  <2>5. ASSUME NEW x \in Asked PROVE disk[LayoutAddress(x)] = x - pos
    <3>1. disk[LayoutAddress(pos + (x - pos))] = x - pos
      BY <2>1, <2>2, Zenon
    <3> QED
      BY <2>2, <3>1, Zenon
  <2> QED
    BY <1>1, <1>3, <1>4, <2>1, <2>4, <2>5, Zenon
<1> QED
  BY <1>1, <1>3, <1>4, Zenon

\* Why the kernel was stopped.
LEMMA StopsFollow == Ext2Inv => StopsKnown
<1> SUFFICES ASSUME Ext2Inv, panic # "no" PROVE StopsKnown
  BY Zenon DEF StopsKnown
<1>1. Request
  BY Zenon DEF Ext2Inv, FindInv, ListInv, IdleInv, Request
<1>2. CASE Tame
  BY <1>1, <1>2, Zenon DEF Ext2Inv, RequestInv, Request, Known, StopsKnown
<1>3. CASE ~Tame
  BY <1>3, Zenon DEF Tame, StopsKnown
<1> QED
  BY <1>2, <1>3, Zenon

\* What a lookup and a listing have found.
LEMMA DirectoryFollows == Ext2Inv => DirectoryExact
<1> SUFFICES ASSUME Ext2Inv PROVE DirectoryExact
  OBVIOUS
<1>1. dir \in Dirs
  BY Zenon DEF Ext2Inv
<1>2. PICK N \in Nat : N = Len(All)
  BY <1>1, DirFacts, Zenon
<1>3. ASSUME call = "find", \A e \in Range(All) : IsBeginning(e.name, name) => e.name = name
      PROVE  Range(found) = {e \in Range(All) : e.name = name}
  <2>1. PICK n \in Names : n = name /\ found = Find(dir, n)
    BY <1>3, Zenon DEF Ext2Inv, FindInv
  <2>2. Range(Find(dir, n)) = {e \in Range(All) : e.name = n}
    BY <1>1, <1>3, <2>1, FindsIt, Zenon
  <2> QED
    BY <2>1, <2>2, Zenon
<1>4. ASSUME call = "list", step = "done"
      PROVE  Range(found) = Range(All) /\ (want = 1 => found = All)
  <2>1. pos \in Nat \ {0} /\ want \in Nat \ {0} /\ Shown(found, pos, want) /\ pos > N
    BY <1>2, <1>4, Zenon DEF Ext2Inv, ListInv
  <2>2. Least(pos - 1 + want, N) = N /\ Least(pos, N) = N
    BY <2>1 DEF Least
  <2>3. Range(found) = {All[k] : k \in 1 .. N} /\ (want = 1 => found = SubSeq(All, 1, N))
    BY <1>2, <2>1, <2>2, Zenon DEF Shown
  <2>4. Range(All) = {All[k] : k \in 1 .. N}
    BY <1>1, <1>2, DirFacts, Zenon DEF Range
  <2>5. SubSeq(All, 1, N) = All
    <3>1. PICK s \in Seq(Entry) : s = All
      BY <1>1, DirFacts, Zenon
    <3>2. SubSeq(s, 1, Len(s)) = s
      OBVIOUS
    <3> QED
      BY <1>2, <3>1, <3>2, Zenon
  <2> QED
    BY <2>3, <2>4, <2>5, Zenon
<1> QED
  BY <1>3, <1>4, Zenon DEF DirectoryExact, All

\* Reads and writes of a file in the direct and the indirect blocks move exactly
\* the bytes asked for, for every block size, width of a long, file, position in the
\* file and length.
THEOREM Ext2MovesExactly == Spec => []DataExact
BY Ext2Safe, DataFollows, PTL

\* A request at a position in the file stops the kernel only at the end of a file
\* that is not a multiple of the block size, on a hole, or beyond the indirect blocks,
\* however the arithmetic on block numbers wraps.
THEOREM Ext2StopsKnown == Spec => []StopsKnown
BY Ext2Safe, StopsFollow, PTL

\* Lookups and listings are exact for every directory whose names are distinct.
THEOREM Ext2ListsExactly == Spec => []DirectoryExact
BY Ext2Safe, DirectoryFollows, PTL
=============================================================================
