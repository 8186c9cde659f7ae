-------------------------------- MODULE Tmpfs -------------------------------
(***************************************************************************)
(* The storage of tmpfs (kernel/fs/tmpfs/) over the inode cache of the VFS *)
(* (kernel/fs/cache.c).  Each operation runs under the lock of the inode   *)
(* it is called on (vfs.c), creat and unlink under the directory's; the    *)
(* superblock's counters and the static next_ino are under no lock, so     *)
(* that each is read in one step and written in a later one.               *)
(* f_bfree and f_favail always get the value of f_bavail and f_ffree.      *)
(* A position is what lseek leaves in the descriptor and a length what     *)
(* truncate is given: signed numbers, and no check keeps them from being   *)
(* negative.                                                               *)
(***************************************************************************)
EXTENDS Integers, FiniteSets

CONSTANTS Cpu, Free,
          Dir,           \* the directories, one of them the root of the volume
          NodesMax,      \* TMPFS_NODES_MAX
          SizeMax,       \* TMPFS_SIZE_MAX
          BufSiz,        \* BUFSIZ, the slack of an allocation
          Val, Junk,     \* bytes, and what an allocation holds that nobody has written
          MaxLen, MaxEnd, \* bounds on one transfer and on its end
          MaxBack        \* bound on how far below zero a position or a length is

ASSUME TmpfsAssumption ==
  /\ Free \notin Cpu /\ Junk \notin Val /\ Dir # {} /\ IsFiniteSet(Dir)
  /\ {SizeMax, BufSiz, MaxLen, MaxEnd, MaxBack} \subseteq Nat /\ BufSiz > 0
  /\ NodesMax \in Nat /\ NodesMax >= Cardinality(Dir)

VARIABLES bavail, ffree,  \* sb->st
          nextIno,        \* the static next_ino of tmpfs_creat
          cache,          \* the items of sb->cache: ino -> tmpfs_inode_t
          file,           \* the inode_t's of regular files: handle -> ino and parent
          children,       \* the handles in tmpfs->children
          lock,           \* the locks of the inodes
          pc, loc,        \* per CPU: where it is, its arguments and locals
          wrote,          \* what programs have written: handle -> position -> byte
          panic           \* what stopped the kernel, or "none"

vars == <<bavail, ffree, nextIno, cache, file, children, lock, pc, loc, wrote, panic>>

Handle == 1..NodesMax
Pos == (-MaxBack)..(MaxEnd - 1)
NewNode == [size |-> 0, capacity |-> 0, data |-> [p \in {} |-> Junk]]
NoLoc == [dir |-> CHOOSE d \in Dir : TRUE, h |-> 0, pos |-> 0, len |-> 0, val |-> Junk,
          old |-> 0, buf |-> [p \in {} |-> Junk]]

\* tmpfs_mount, and the directories made since.
Init ==
  /\ bavail = SizeMax
  /\ ffree = NodesMax - (Cardinality(Dir) - 1)
  /\ nextIno = Cardinality(Dir)
  /\ cache = [ino \in 1..Cardinality(Dir) |-> NewNode]
  /\ file = [h \in {} |-> [ino |-> 0, parent |-> NoLoc.dir]]
  /\ children = {}
  /\ lock = [o \in Dir \cup Handle |-> Free]
  /\ pc = [c \in Cpu |-> "idle"]
  /\ loc = [c \in Cpu |-> NoLoc]
  /\ wrote = [h \in Handle |-> [p \in {} |-> Junk]]
  /\ panic = "none"

Lock(c, o) == lock[o] = Free /\ lock' = [lock EXCEPT ![o] = c]
Unlock(o) == lock' = [lock EXCEPT ![o] = Free]
Runs == panic = "none"
Goto(c, label) == pc' = [pc EXCEPT ![c] = label]
Return(c) == Goto(c, "idle")

\* A function with v at the places of a set, old or new.
Store(f, at, v) == [x \in DOMAIN f \cup at |-> IF x \in at THEN v ELSE f[x]]

-----------------------------------------------------------------------------
\* tmpfs_creat: ENOSPC when no node is free; ++next_ino is read here, written next.
CreatBegin(c, d) ==
  /\ pc[c] = "idle" /\ Runs
  /\ lock[d] = Free
  /\ IF ffree = 0 THEN UNCHANGED <<lock, pc, loc>>
     ELSE /\ Lock(c, d)
          /\ loc' = [loc EXCEPT ![c] = [NoLoc EXCEPT !.dir = d, !.old = nextIno]]
          /\ Goto(c, "ino")
  /\ UNCHANGED <<bavail, ffree, nextIno, cache, file, children, wrote, panic>>

\* vfs_cache_get: an item that is there, or a new one; the cache never gives one back.
\* tmpfs_creat resets what it gets, but for st_size.
InoKept(c) == loc[c].old
InoTaken(c) == loc[c].old + 1
CacheFull(ino) == ino \notin DOMAIN cache /\ Cardinality(DOMAIN cache) = NodesMax
Loaded(ino) == IF ino \in DOMAIN cache THEN [NewNode EXCEPT !.size = cache[ino].size] ELSE NewNode
CreatIno(c) ==
  LET ino == InoTaken(c)
  IN  /\ pc[c] = "ino" /\ Runs
      /\ nextIno' = ino
      /\ panic' = IF CacheFull(ino) THEN "overflow" ELSE panic
      /\ cache' = IF CacheFull(ino) THEN cache ELSE Store(cache, {ino}, Loaded(ino))
      /\ loc' = [loc EXCEPT ![c].h = ino, ![c].old = ffree]
      /\ Goto(c, "push")
      /\ UNCHANGED <<bavail, ffree, file, children, lock, wrote>>

\* The inode_t, the counters, the list of children.
CreatPush(c) ==
  LET h == Cardinality(DOMAIN file) + 1
  IN  /\ pc[c] = "push" /\ Runs
      /\ ffree' = loc[c].old - 1
      /\ file' = Store(file, {h}, [ino |-> loc[c].h, parent |-> loc[c].dir])
      /\ children' = children \cup {h}
      /\ Unlock(loc[c].dir)
      /\ Return(c)
      /\ loc' = [loc EXCEPT ![c] = NoLoc]
      /\ UNCHANGED <<bavail, nextIno, cache, wrote, panic>>

-----------------------------------------------------------------------------
NodeOf(h) == cache[file[h].ino]

\* Signed numbers compared as the unsigned ones they are converted to.
Above(x, y) == IF x < 0 <=> y < 0 THEN x > y ELSE x < 0

\* krealloc: the common prefix survives.  dlmalloc takes a negative capacity for a
\* huge one, cannot serve it, and ends in kpanic.
FreshAlloc(data, capacity) == [p \in 0..(capacity - 1) |-> Junk]
Realloc(data, capacity) ==
  [p \in 0..(capacity - 1) |-> IF p \in DOMAIN data THEN data[p] ELSE Junk]
NoMemory(capacity) == capacity < 0

\* tmpfs_write up to the update of the free space, which is read here, written next.
Room(grow) == bavail - grow > 0
NeverGrows(node, end) == FALSE
TooSmall(node, end) == Above(end, node.size) /\ Above(end, node.capacity)
WriteBegin(c, h, pos, len, v) ==
  LET node == NodeOf(h)
      end == pos + len
  IN  /\ pc[c] = "idle" /\ Runs
      /\ lock[h] = Free
      /\ h \in children
      /\ \/ /\ Above(end, node.size) /\ ~Room(end - node.size)
            /\ UNCHANGED <<lock, pc, loc, cache, panic>>
         \/ /\ Above(end, node.size) => Room(end - node.size)
            /\ TooSmall(node, end) /\ NoMemory(BufSiz + end)
            /\ panic' = "nomem"
            /\ UNCHANGED <<lock, pc, loc, cache>>
         \/ /\ Above(end, node.size) => Room(end - node.size)
            /\ ~(TooSmall(node, end) /\ NoMemory(BufSiz + end))
            /\ Lock(c, h)
            /\ loc' = [loc EXCEPT ![c] = [NoLoc EXCEPT !.h = h, !.pos = pos, !.len = len,
                                                       !.val = v, !.old = bavail]]
            /\ cache' = IF TooSmall(node, end)
                        THEN [cache EXCEPT ![file[h].ino].capacity = BufSiz + end,
                                           ![file[h].ino].data = Realloc(@, BufSiz + end)]
                        ELSE cache
            /\ Goto(c, "store")
            /\ UNCHANGED panic
      /\ UNCHANGED <<bavail, ffree, nextIno, file, children, wrote>>

\* The space is charged, the size grows, the bytes are copied.  When the copy leaves
\* the allocation it spoils the kernel's heap, and nothing is said of what follows.
ChargedLess(old, node, end) == old
Charged(old, node, end) == IF Above(end, node.size) THEN old - (end - node.size) ELSE old
Bytes(pos, len) == pos..(pos + len - 1)
WriteEnd(c) ==
  LET h == loc[c].h
      node == NodeOf(h)
      at == Bytes(loc[c].pos, loc[c].len)
      inside == at \cap DOMAIN node.data
      end == loc[c].pos + loc[c].len
  IN  /\ pc[c] = "store" /\ Runs
      /\ bavail' = Charged(loc[c].old, node, end)
      /\ cache' = [cache EXCEPT ![file[h].ino].size = IF Above(end, @) THEN end ELSE @,
                                ![file[h].ino].data = Store(@, inside, loc[c].val)]
      /\ wrote' = [wrote EXCEPT ![h] = Store(@, inside, loc[c].val)]
      /\ panic' = IF inside = at THEN panic ELSE "overrun"
      /\ Unlock(h)
      /\ Return(c)
      /\ loc' = [loc EXCEPT ![c] = NoLoc]
      /\ UNCHANGED <<ffree, nextIno, file, children>>

\* tmpfs_truncate: only shrinks, below zero too.  The difference that is to be given
\* back is taken after st_size has been set, and is zero.
GivenBack(node, len) == 0
Truncate(c, h, len) ==
  LET node == NodeOf(h)
      ino == file[h].ino
  IN  /\ pc[c] = "idle" /\ Runs
      /\ lock[h] = Free /\ h \in children
      /\ len < node.size
      /\ IF NoMemory(BufSiz + len) THEN panic' = "nomem" /\ UNCHANGED <<cache, bavail, wrote>>
         ELSE /\ cache' = [cache EXCEPT ![ino] = [size |-> len, capacity |-> BufSiz + len,
                                                  data |-> Realloc(node.data, BufSiz + len)]]
              /\ bavail' = bavail + GivenBack(node, len)
              /\ wrote' = [wrote EXCEPT ![h] = [p \in DOMAIN @ \cap 0..(len - 1) |-> @[p]]]
              /\ UNCHANGED panic
      /\ UNCHANGED <<ffree, nextIno, file, children, lock, pc, loc>>

\* tmpfs_read: nothing without data; the length is cut to the end of the file, and
\* is negative behind it: memcpy, which takes it for a huge one, faults.  Before or
\* behind the allocation lies what the heap holds there.
ReadLen(node, pos, len) ==
  IF node = NewNode THEN 0 ELSE IF Above(pos + len, node.size) THEN node.size - pos ELSE len
ReadBegin(c, h, pos, len) ==
  /\ pc[c] = "idle" /\ Runs
  /\ h \in children
  /\ Lock(c, h)
  /\ loc' = [loc EXCEPT ![c] = [NoLoc EXCEPT !.h = h, !.pos = pos,
                                             !.len = ReadLen(NodeOf(h), pos, len)]]
  /\ Goto(c, "copy")
  /\ UNCHANGED <<bavail, ffree, nextIno, cache, file, children, wrote, panic>>
ReadEnd(c) ==
  LET h == loc[c].h
      node == NodeOf(h)
  IN  /\ pc[c] = "copy" /\ Runs
      /\ loc' = [loc EXCEPT ![c].buf =
                   [p \in Bytes(loc[c].pos, loc[c].len) |-> IF p \in DOMAIN node.data THEN node.data[p] ELSE Junk]]
      /\ Goto(c, "read")
      /\ panic' = IF loc[c].len < 0 THEN "fault" ELSE panic
      /\ UNCHANGED <<bavail, ffree, nextIno, cache, file, children, lock, wrote>>
ReadDone(c) ==
  /\ pc[c] = "read" /\ Runs
  /\ loc' = [loc EXCEPT ![c] = NoLoc]
  /\ Unlock(loc[c].h)
  /\ Return(c)
  /\ UNCHANGED <<bavail, ffree, nextIno, cache, file, children, wrote, panic>>

\* tmpfs_unlink: the node and its space are given back, its cache item is not.
FfreeAfter == ffree + 1
Unlink(c, h) ==
  /\ pc[c] = "idle" /\ Runs
  /\ h \in children /\ lock[file[h].parent] = Free
  /\ children' = children \ {h}
  /\ ffree' = FfreeAfter
  /\ bavail' = bavail + NodeOf(h).size
  /\ UNCHANGED <<nextIno, cache, file, lock, pc, loc, wrote, panic>>

Next ==
  \E c \in Cpu :
    \/ CreatIno(c) \/ CreatPush(c) \/ WriteEnd(c) \/ ReadEnd(c) \/ ReadDone(c)
    \/ \E d \in Dir : CreatBegin(c, d)
    \/ \E h \in DOMAIN file :
         \/ Unlink(c, h)
         \/ \E len \in Pos : Truncate(c, h, len)
         \/ \E pos \in Pos, len \in 1..MaxLen :
              \/ ReadBegin(c, h, pos, len)
              \/ pos + len =< MaxEnd /\ \E v \in Val : WriteBegin(c, h, pos, len, v)

Spec == Init /\ [][Next]_vars

-----------------------------------------------------------------------------
\* A write that starts before its file.
Astray(c) == pc[c] = "store" /\ loc[c].pos < 0

\* The copy of tmpfs_write stays inside the allocation, which covers the size and the
\* transfer through growing, shrinking and reallocating.  Two writes the kernel lets
\* through do not: one at a negative position, which starts before the allocation, and
\* one to a file cut to a negative length, whose size no end of a write is above.
CopiesInBounds ==
  /\ (Runs /\ \A c \in Cpu : ~Astray(c)) =>
       \A i \in DOMAIN cache :
         cache[i].size =< cache[i].capacity /\ DOMAIN cache[i].data = 0..(cache[i].capacity - 1)
  /\ \A c \in Cpu :
       (pc[c] = "store" /\ loc[c].pos >= 0 /\ NodeOf(loc[c].h).size >= 0) =>
         Bytes(loc[c].pos, loc[c].len) \subseteq DOMAIN NodeOf(loc[c].h).data

\* A read that succeeds returns each byte as it was last written to this file, and to
\* no other; from a position and in a file that are not negative it stays in the file.
ReadBack ==
  \A c \in Cpu : pc[c] = "read" =>
    \A p \in DOMAIN loc[c].buf :
      /\ (loc[c].pos >= 0 /\ NodeOf(loc[c].h).size >= 0) => p \in 0..(NodeOf(loc[c].h).size - 1)
      /\ p \in DOMAIN wrote[loc[c].h] => loc[c].buf[p] = wrote[loc[c].h][p]

\* Two files of the volume never share an inode number, which is all that tells their
\* data apart in the cache.
InoUnique == \A g, h \in children : file[g].ino = file[h].ino => g = h

\* The bytes of the linked files, each with its handle and place.
Place == 0..(MaxEnd - 1)
Used == {x \in children \X Place : x[2] < NodeOf(x[1]).size}

\* A file has been cut to a negative length.
Cut == \E h \in DOMAIN file : NodeOf(h).size < 0

\* The free-space counter never promises more than is there: with the sizes of all
\* linked files it stays within the volume, and the linked nodes with the free ones make
\* up the volume.  A write never uses up the last byte, and only the unlinking of a file
\* of negative length, which takes it from the free space, can.
SpaceBound ==
  /\ (Runs /\ \A c \in Cpu : pc[c] = "idle") =>
       /\ bavail + Cardinality(Used) =< SizeMax
       /\ ffree + Cardinality(children) + Cardinality(Dir) - 1 = NodesMax
  /\ SizeMax > 0 => bavail > 0 \/ Cut
=============================================================================
