-------------------------------- MODULE Ext2 --------------------------------
(***************************************************************************)
(* Reading and writing a file and searching a directory of ext2:           *)
(* kernel/fs/ext2/ext2_read.c, ext2_write.c, ext2_finddir.c, ext2_readdir.c*)
(* and utils/inode.c, utils/block.c.                                       *)
(*                                                                         *)
(* A call is cut into pieces of at most one block, and the block of each   *)
(* is found through up to three levels of pointers. Bytes are identified   *)
(* by where they are on the device, so that a read is right when every     *)
(* byte of the buffer came from the right address, and a write when every  *)
(* address got the right byte of the buffer.                               *)
(***************************************************************************)
EXTENDS Integers, Sequences, Functions

CONSTANTS
    BlockSize,  \* ext2->blocksize
    NDir,       \* EXT2_NDIR_BLOCKS
    Ptrs,       \* pointers in a block: blocksize / sizeof(uint32_t)
    W,          \* uint32_t is taken modulo 2^W
    Widths,     \* the widths of long, and so of off_t and size_t: W on i686, more on x86_64
    MaxLen,     \* bound: longest request, but for those near the largest
    Near,       \* bound: how far a position is below 0 and a length below the largest
    MaxRoom,    \* bound: entries that a program has room for
    Files,      \* the files: [size, top, ptr]
    Dirs,       \* the directories: sequences of blocks of entries
    Names       \* the names looked up: sequences of characters

\* The numbers of the integer types, and the bytes of the direct and the indirect
\* blocks (little more than 1 GiB at 64 KiB a block), are counted in 32 bits.
ASSUME Ext2Assumption ==
    /\ BlockSize \in Nat \ {0}
    /\ NDir \in Nat \ {0}
    /\ Ptrs \in Nat \ {0}
    /\ W \in Nat \ {0} /\ Widths \subseteq Nat /\ \A w \in Widths : w >= W
    /\ 2 ^ W \in Nat \ {0}
    /\ \A w \in Widths : 2 ^ (w - 1) \in Nat \ {0} /\ 2 ^ w = 2 * 2 ^ (w - 1)
    /\ BlockSize * (NDir + Ptrs) < 2 ^ W
    /\ MaxLen \in Nat \ {0}
    /\ MaxRoom \in Nat \ {0}
    /\ Near \in Nat

VARIABLES
    width,      \* the width of long in this build
    file,       \* the file: its size, i_block and the blocks of pointers
    dir,        \* the directory
    call,       \* "idle", "read", "write", "find" or "list"
    pos,        \* the position in the file, or in the directory
    want,       \* the length, or the number of entries, asked for
    len,        \* the length after it was cut at the end of the file
    ib, eb,     \* first and last block still to do
    off,        \* where in the buffer whole blocks go
    step,       \* the part of the call that is next
    mem,        \* the buffer after a read: index -> address
    disk,       \* what a write left on the device: address -> index
    name,       \* the name looked up
    found,      \* the entry found or the entries listed
    panic       \* why the kernel stopped, or "no"

vars == <<width, file, dir, call, pos, want, len, ib, eb, off, step, mem, disk, name,
          found, panic>>

Nobody == [i \in {} |-> 0]

Init ==
    /\ width \in Widths
    /\ file \in Files
    /\ dir \in Dirs
    /\ call = "idle"
    /\ pos = 0 /\ want = 0 /\ len = 0
    /\ ib = 0 /\ eb = 0 /\ off = 0
    /\ step = "none"
    /\ mem = Nobody
    /\ disk = Nobody
    /\ name = << >>
    /\ found = << >>
    /\ panic = "no"

Running == panic = "no"

Word(n) == n % 2 ^ W

Long(n) == n % 2 ^ width

-----------------------------------------------------------------------------
(* utils/inode.c and utils/block.c                                         *)

\* One pointer read from a block; block 0 fails the assertion, so that
\* whatever is read through it is 0 as well
PointerOf(f, block, k) == IF block = 0 THEN 0 ELSE f.ptr[block][k]

Pointer(block, k) == PointerOf(file, block, k)

\* The block that read_inode_data and write_inode_data use for block k of the
\* file, or 0 where they stop the kernel. The variable that holds what is left
\* of k receives each pointer in turn: below the first level the next index is
\* computed from the pointer and not from k.
Indirect(k) == Pointer(file.top[NDir], k)

DoubleIndirect(k) ==
    LET p == Pointer(file.top[NDir + 1], k \div Ptrs)
    IN  Pointer(p, p % Ptrs)

TripleIndirect(k) ==
    LET p == Pointer(file.top[NDir + 2], k \div (Ptrs * Ptrs))
        q == Pointer(p, (p % (Ptrs * Ptrs)) \div Ptrs)
    IN  Pointer(q, (q % (Ptrs * Ptrs)) % Ptrs)

\* The indirect blocks counted from one too far
OffByOne(k) ==
    CASE k < NDir        -> file.top[k]
      [] k < NDir + Ptrs -> Indirect((k - NDir + 1) % Ptrs)
      [] OTHER           -> 0

BlockOf(k) ==
    LET i == k - NDir
        d == i - Ptrs
        t == d - Ptrs * Ptrs
    IN  CASE k < NDir                 -> file.top[k]
          [] i \in 0 .. Ptrs - 1      -> Indirect(i)
          [] d \in 0 .. Ptrs ^ 2 - 1  -> DoubleIndirect(d)
          [] t \in 0 .. Ptrs ^ 3 - 1  -> TripleIndirect(t)
          [] OTHER                    -> 0

\* where on the device byte o of a block is read or written
Address(block, o) == Word(block * BlockSize + o)

-----------------------------------------------------------------------------
(* ext2_read and ext2_write                                                *)

data == <<width, file, dir, call, pos, want, len, name, found>>

kpanic(why) ==
    /\ panic' = why
    /\ UNCHANGED <<ib, eb, off, step, mem, disk>>

\* p bytes between buffer index b and offset o of block k of the file
Span(b, p) == b .. b + p - 1

MoveRead(block, o, b, p) ==
    /\ mem' = [i \in DOMAIN mem \cup Span(b, p) |->
                 IF i \in Span(b, p) THEN Address(block, o) + (i - b) ELSE mem[i]]
    /\ UNCHANGED disk

MoveWrite(block, o, b, p) ==
    LET to(i) == Address(block, o) + (i - b)
        at    == {to(i) : i \in Span(b, p)}
    IN  /\ disk' = [a \in DOMAIN disk \cup at |->
                      IF a \in at THEN CHOOSE i \in Span(b, p) : to(i) = a
                      ELSE disk[a]]
        /\ UNCHANGED mem

\* what the call does after the transfer is `next`
Transfer(k, o, b, p, next) ==
    IF p = 0 \/ p > BlockSize THEN kpanic("size")
    ELSE IF BlockOf(k) = 0 THEN kpanic("block")
    ELSE /\ \/ call = "read" /\ MoveRead(BlockOf(k), o, b, p)
            \/ call = "write" /\ MoveWrite(BlockOf(k), o, b, p)
         /\ next
         /\ UNCHANGED panic

Skip(next) == next /\ UNCHANGED <<mem, disk, panic>>

\* The length not cut at the end of the file
Uncut(p, n) == n

Cut(p, n) == IF Long(p + n) > file.size THEN Long(file.size - p) ELSE n

\* pos / blocksize and pos % blocksize: of a long on x86_64, where they are rounded
\* towards 0, and of an unsigned number of 32 bits on i686
Dividend(p) == IF width > W THEN p ELSE Long(p)

Quotient(p) == IF Dividend(p) < 0 THEN -((-Dividend(p)) \div BlockSize)
               ELSE Dividend(p) \div BlockSize

Remainder(p) == Dividend(p) - BlockSize * Quotient(p)

Begin(op, p, n) ==
    /\ Running
    /\ call = "idle"
    /\ call' = op
    /\ pos' = p
    /\ want' = n
    /\ len' = Cut(p, n)
    /\ ib' = Word(Quotient(p))
    /\ eb' = Word(Long(p + len' - 1) \div BlockSize)
    /\ off' = 0
    /\ step' = "head"
    /\ UNCHANGED <<width, file, dir, mem, disk, name, found, panic>>

\* The first piece, when it does not begin with its block
HeadSize ==
    LET p == BlockSize - Remainder(pos) IN IF p > len THEN len ELSE p

Head1 ==
    /\ Running
    /\ step = "head"
    /\ IF Remainder(pos) # 0
         THEN Transfer(ib, Word(Remainder(pos)), 0, HeadSize,
                 /\ off' = Word(off + HeadSize)
                 /\ ib' = Word(ib + 1)
                 /\ step' = "tail"
                 /\ UNCHANGED eb)
         ELSE Skip(step' = "tail" /\ UNCHANGED <<off, ib, eb>>)
    /\ UNCHANGED data

\* The last piece, when it does not end with its block and is not the first
TailSize == Long(pos + len) % BlockSize

Tail1 ==
    /\ Running
    /\ step = "tail"
    /\ IF TailSize # 0 /\ ib <= eb
         THEN Transfer(eb, 0, len - TailSize, TailSize,
                 /\ eb' = Word(eb - 1)
                 /\ step' = "whole"
                 /\ UNCHANGED <<ib, off>>)
         ELSE Skip(step' = "whole" /\ UNCHANGED <<off, ib, eb>>)
    /\ UNCHANGED data

\* for(long i = eb - ib + 1; i > 0; i--): the unsigned difference can be negative as
\* a long of 32 bits
Left == LET n == Word(eb - ib + 1) IN IF n >= 2 ^ (width - 1) THEN 0 ELSE n

Whole ==
    /\ Running
    /\ step = "whole"
    /\ IF Left # 0
         THEN Transfer(ib, 0, off, BlockSize,
                 /\ ib' = Word(ib + 1)
                 /\ off' = Word(off + BlockSize)
                 /\ UNCHANGED <<eb, step>>)
         ELSE Skip(step' = "done" /\ UNCHANGED <<off, ib, eb>>)
    /\ UNCHANGED data

Return ==
    /\ Running
    /\ step = "done"
    /\ call' = "idle"
    /\ step' = "none"
    /\ mem' = Nobody /\ disk' = Nobody
    /\ pos' = 0 /\ want' = 0 /\ len' = 0
    /\ ib' = 0 /\ eb' = 0 /\ off' = 0
    /\ name' = << >> /\ found' = << >>
    /\ UNCHANGED <<width, file, dir, panic>>

-----------------------------------------------------------------------------
(* ext2_finddir, and ext2_readdir under sys_getdents                       *)

\* the entries of directory d, block after block
Entries(d) ==
    LET upto[k \in 0 .. Len(d)] == IF k = 0 THEN << >> ELSE upto[k - 1] \o d[k]
    IN  upto[Len(d)]

\* sequence s begins sequence t
IsBeginning(s, t) == Len(s) <= Len(t) /\ SubSeq(t, 1, Len(s)) = s

\* The name begins the entry's name
Begins(e, n) == IsBeginning(n, e.name)

\* strncmp(name, e->name, e->name_len) == 0: the entry's name begins the name
Matches(e, n) == IsBeginning(e.name, n)

\* The first entry that matches. The blocks of a directory are given here: a hole in
\* one stops the kernel as a hole in a file does, and so does an unused entry on a
\* volume of the first revision, where the mode is read from the inode.
Find(d, n) ==
    LET all  == Entries(d)
        hits == {k \in DOMAIN all : Matches(all[k], n)}
    IN  IF hits = {} THEN << >>
        ELSE <<all[CHOOSE k \in hits : \A j \in hits : k <= j]>>

Finddir(n) ==
    /\ Running
    /\ call = "idle"
    /\ call' = "find"
    /\ name' = n
    /\ found' = Find(dir, n)
    /\ step' = "done"
    /\ UNCHANGED <<width, file, dir, pos, want, len, ib, eb, off, mem, disk, panic>>

\* ext2_readdir(pos, n): at most n entries, after pos others
Listed(p, n) ==
    LET all == Entries(dir)
    IN  SubSeq(all, p + 1, IF p + n < Len(all) THEN p + n ELSE Len(all))

\* A program lists the directory: getdents with room for n entries, which
\* moves the position by one whatever n is, until it returns nothing
Getdents(n) ==
    /\ Running
    /\ call = "idle" \/ (call = "list" /\ step = "more" /\ want = n)
    /\ call' = "list"
    /\ want' = n
    /\ found' = found \o Listed(pos, n)
    /\ pos' = pos + 1
    /\ step' = IF Listed(pos, n) = << >> THEN "done" ELSE "more"
    /\ UNCHANGED <<width, file, dir, len, ib, eb, off, mem, disk, name, panic>>

Stopped == ~Running /\ UNCHANGED vars

Next ==
    \/ \E op \in {"read", "write"}, p \in -Near .. file.size + BlockSize,
          n \in 1 .. MaxLen \cup {2 ^ width - k : k \in 1 .. Near} :
             n > 0 /\ n < 2 ^ width /\ Begin(op, p, n)
    \/ Head1 \/ Tail1 \/ Whole \/ Return
    \/ \E n \in Names : Finddir(n)
    \/ \E n \in 1 .. MaxRoom : Getdents(n)
    \/ Stopped

Spec == Init /\ [][Next]_vars

-----------------------------------------------------------------------------
(* What the layout of ext2 says                                            *)

\* the block of the volume that is block k of file f, 0 for a hole
Layout(f, k) ==
    LET i == k - NDir
        d == i - Ptrs
        t == d - Ptrs * Ptrs
    IN  CASE k < NDir                -> f.top[k]
          [] i \in 0 .. Ptrs - 1     -> PointerOf(f, f.top[NDir], i)
          [] d \in 0 .. Ptrs ^ 2 - 1 ->
               PointerOf(f, PointerOf(f, f.top[NDir + 1], d \div Ptrs), d % Ptrs)
          [] t \in 0 .. Ptrs ^ 3 - 1 ->
               PointerOf(f, PointerOf(f, PointerOf(f, f.top[NDir + 2], t \div Ptrs ^ 2),
                                      (t \div Ptrs) % Ptrs), t % Ptrs)
          [] OTHER                   -> 0

LayoutBlock(k) == Layout(file, k)

\* the direct and the indirect blocks
Reach == 0 .. NDir + Ptrs - 1

\* A consistent volume: the blocks of a file can be numbered in 32 bits, its size is
\* an off_t, no block is in it twice, and no two entries of a directory have the same name.
ASSUME VolumeAssumption ==
    /\ \A f \in Files :
          /\ f.size \in 0 .. BlockSize * (2 ^ W - 1)
          /\ \A w \in Widths : f.size < 2 ^ (w - 1)
          /\ \A k \in Reach : Layout(f, k) \in Nat
          /\ \A j, k \in Reach : Layout(f, j) = Layout(f, k) => j = k \/ Layout(f, j) = 0
    /\ Names \subseteq Seq(STRING)
    /\ \A d \in Dirs :
          /\ d \in Seq(Seq([name : Seq(STRING), ino : Nat]))
          /\ \A e1, e2 \in Range(Entries(d)) : e1.name = e2.name => e1 = e2

LayoutAddress(x) == LayoutBlock(x \div BlockSize) * BlockSize + (x % BlockSize)

\* the positions in the file that a call is about
Asked == {x \in pos .. file.size - 1 : x < pos + want}

\* within the direct and the indirect blocks
InReach == \A x \in Asked : x \div BlockSize < NDir + Ptrs

\* the addresses of the volume fit in 32 bits
Fits == \A x \in Asked : LayoutAddress(x) < 2 ^ W

\* a block size divides 2^32 and a long counts more than 2^32 blocks
Wide == 2 ^ width % (BlockSize * 2 ^ W) = 0

\* The call is for bytes of the file, or at its end, and position and length do not
\* add up to more than a size_t holds. An empty file has none on i686: there the
\* last block of nothing is not the one before the first.
Regular ==
    /\ 0 <= pos /\ pos <= file.size
    /\ pos + want < 2 ^ width
    /\ file.size > 0 \/ Wide

-----------------------------------------------------------------------------
(* Properties                                                              *)

\* A read fills the buffer with exactly the bytes of the file from the
\* position on, a write changes exactly these bytes and no others, at every
\* alignment and across the end of the file, in the direct and the indirect
\* blocks of a volume of less than 4 GiB. Not so for a negative position, one
\* behind the end of the file, and a length that wraps with the position: the code
\* checks none of them.
DataExact ==
    /\ call = "read" /\ step = "done" /\ Regular /\ InReach /\ Fits =>
          /\ Asked = pos .. pos + len - 1
          /\ mem = [i \in 0 .. len - 1 |-> LayoutAddress(pos + i)]
    /\ call = "write" /\ step = "done" /\ Regular /\ InReach /\ Fits =>
          /\ Asked = pos .. pos + len - 1
          /\ DOMAIN disk = {LayoutAddress(x) : x \in Asked}
          /\ \A x \in Asked : disk[LayoutAddress(x)] = x - pos

\* A read or a write at a position in the file, of a length that does not wrap with
\* it, stops the kernel only on a hole, beyond the indirect blocks, at the end of a
\* file whose size is not a multiple of the block size, and, on i686, in an empty
\* file: the arithmetic on blocks, which wraps for pieces that end where they
\* begin, never leads outside the file otherwise.
StopsKnown ==
    panic # "no" =>
       \/ ~Regular
       \/ pos = file.size /\ pos % BlockSize # 0
       \/ \E x \in Asked : LayoutBlock(x \div BlockSize) = 0
       \/ ~InReach

\* A lookup finds the entry of that name, unless an entry's name is a proper
\* prefix of it (an unused entry's is empty). A listing ends, and has shown
\* every entry and nothing else: in order and once if the program has room
\* for one entry at a time, more than once if it has room for more.
DirectoryExact ==
    LET all == Entries(dir)
        NoPrefix == \A e \in Range(all) : IsBeginning(e.name, name) => e.name = name
    IN  /\ call = "find" /\ NoPrefix =>
              Range(found) = {e \in Range(all) : e.name = name}
        /\ call = "list" /\ step = "done" => Range(found) = Range(all)
        /\ call = "list" /\ step = "done" /\ want = 1 => found = all
=============================================================================
