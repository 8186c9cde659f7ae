----------------------------- MODULE TmpfsProofs ----------------------------
(***************************************************************************)
(* tmpfs with one caller, for every number of directories and nodes, every *)
(* size of the volume and of a transfer, and positions and lengths from    *)
(* below zero on.                                                          *)
(***************************************************************************)
EXTENDS Tmpfs, FiniteSetTheorems, TLAPS

\* The kernel has one task: all file operations are its system calls.
Caller == CHOOSE c \in Cpu : TRUE
OneCaller == Cpu = {Caller}

Where == pc[Caller]
Loc == loc[Caller]
Labels == {"idle", "ino", "push", "store", "copy", "read"}
Char == Val \cup {Junk}
NDir == Cardinality(Dir)

\* A node's allocation has its capacity, which covers its size.
IsNode(n) ==
  /\ n = [size |-> n.size, capacity |-> n.capacity, data |-> n.data]
  /\ n.capacity \in Nat /\ n.size \in Int /\ n.size =< n.capacity /\ n.size =< MaxEnd
  /\ n.data \in [0..(n.capacity - 1) -> Char]

\* The variables keep their types; the locks need none with one caller.
TypeOK ==
  /\ bavail \in Int /\ ffree \in Int /\ nextIno \in Nat
  /\ DOMAIN pc = Cpu /\ Where \in Labels
  /\ DOMAIN loc = Cpu
  /\ Loc = [dir |-> Loc.dir, h |-> Loc.h, pos |-> Loc.pos, len |-> Loc.len, val |-> Loc.val,
            old |-> Loc.old, buf |-> Loc.buf]

\* The cache holds every inode number given out, from 1; the file with handle h has the
\* h-th number after the directories'.  A number is in the cache before its file is.
LastCached == IF panic = "overflow" THEN nextIno - 1 ELSE nextIno
LastFile == nextIno - NDir - (IF Where = "push" THEN 1 ELSE 0)
Numbered ==
  /\ NDir =< nextIno /\ LastCached =< NodesMax
  /\ panic = "overflow" => Where = "push"
  /\ Where = "push" => NDir < nextIno
  /\ DOMAIN cache = 1..LastCached
  /\ \A i \in 1..LastCached : IsNode(cache[i])
  /\ DOMAIN file = 1..LastFile
  /\ \A h \in 1..LastFile : file[h].ino = h + NDir
  /\ children \subseteq 1..LastFile

\* What programs have written is in the data of their file.
Holds(h, node) == \A p \in DOMAIN wrote[h] : p \in 0..(node.capacity - 1) /\ node.data[p] = wrote[h][p]
Kept ==
  /\ DOMAIN wrote = Handle
  /\ \A h \in 1..LastFile : Holds(h, NodeOf(h))
  /\ \A h \in Handle : h > LastFile => DOMAIN wrote[h] = {}

\* What a call in progress may rely on.
Affords(pos, len, node) == Above(pos + len, node.size) => Room((pos + len) - node.size)
Progress ==
  /\ Where = "ino" => Loc.old = nextIno
  /\ Where = "push" => /\ Loc.h = nextIno /\ Loc.old = ffree
                       /\ panic # "overflow" => cache[nextIno] = NewNode
  /\ Where \in {"store", "copy", "read"} => Loc.h \in children
  /\ Where = "store" =>
       /\ Loc.pos \in Nat /\ Loc.len \in Nat /\ Loc.len > 0 /\ Loc.val \in Val /\ Loc.old = bavail
       /\ Loc.pos + Loc.len =< MaxEnd
       /\ NodeOf(Loc.h).size >= 0 => Loc.pos + Loc.len =< NodeOf(Loc.h).capacity
       /\ Affords(Loc.pos, Loc.len, NodeOf(Loc.h))
  /\ Where = "copy" =>
       /\ Loc.pos \in Int /\ Loc.len \in Int
       /\ (Loc.pos >= 0 /\ NodeOf(Loc.h).size >= 0 /\ Loc.len > 0) => Loc.pos + Loc.len =< NodeOf(Loc.h).size
  /\ Where = "read" =>
       \A p \in DOMAIN Loc.buf :
         /\ (Loc.pos >= 0 /\ NodeOf(Loc.h).size >= 0) => p \in 0..(NodeOf(Loc.h).size - 1)
         /\ p \in DOMAIN NodeOf(Loc.h).data => Loc.buf[p] = NodeOf(Loc.h).data[p]

\* The counters, with one caller in every state.
Spare == SizeMax > 0 => bavail > 0 \/ Cut
Charges ==
  /\ bavail + Cardinality(Used) =< SizeMax
  /\ ffree + Cardinality(children) + NDir - 1 = NodesMax
  /\ Spare

\* The volume while every copy stays inside its allocation.
Sound == TypeOK /\ Numbered /\ Kept /\ Progress /\ Charges

\* A write about to copy, of which the position is not known; one at a negative
\* position; and the volume after a copy that left its allocation.
Storing ==
  /\ panic = "none" /\ Where = "store" /\ DOMAIN pc = Cpu
  /\ InoUnique /\ Spare
  /\ bavail \in Int /\ Loc.old = bavail
  /\ Loc.pos \in Int /\ Loc.len \in Nat /\ Loc.len > 0
  /\ Loc.h \in DOMAIN file /\ \A g \in DOMAIN file : file[g].ino \in DOMAIN cache
  /\ NodeOf(Loc.h) = [size |-> NodeOf(Loc.h).size, capacity |-> NodeOf(Loc.h).capacity, data |-> NodeOf(Loc.h).data]
  /\ NodeOf(Loc.h).size \in Int /\ DOMAIN NodeOf(Loc.h).data \subseteq Nat
  /\ Affords(Loc.pos, Loc.len, NodeOf(Loc.h))
Strays == Storing /\ Loc.pos < 0
Spoilt == panic = "overrun" /\ Where = "idle" /\ InoUnique /\ Spare

\* The inductive invariant.
TmpfsInv == Sound \/ Strays \/ Spoilt

-----------------------------------------------------------------------------
\* The constants, with what TmpfsAssumption says of them.
LEMMA Constants ==
  /\ NDir \in Nat /\ NDir > 0 /\ NodesMax \in Nat /\ NDir =< NodesMax
  /\ SizeMax \in Nat /\ BufSiz \in Nat /\ BufSiz > 0 /\ MaxLen \in Nat /\ MaxEnd \in Nat /\ MaxBack \in Nat
<1>1. NDir \in Nat /\ NDir # 0
  BY TmpfsAssumption, FS_CardinalityType, FS_EmptySet, Zenon DEF NDir
<1> QED
  BY <1>1, TmpfsAssumption DEF NDir

\* tmpfs_cache_load makes a node without an allocation.
LEMMA NewNodeIsNode == IsNode(NewNode)
<1>1. 0..(0 - 1) = {}
  OBVIOUS
<1>2. [p \in {} |-> Junk] \in [0..(0 - 1) -> Char]
  BY <1>1, Zenon
<1> QED
  BY <1>2, Constants DEF IsNode, NewNode

\* Every file has a node in the cache.
LEMMA FilesHaveNodes ==
  ASSUME Numbered, nextIno \in Nat, NEW h \in 1..LastFile
  PROVE  /\ file[h].ino \in 1..LastCached /\ file[h].ino = h + NDir
         /\ IsNode(NodeOf(h))
         /\ NodeOf(h).size \in Int /\ NodeOf(h).size =< MaxEnd
         /\ h \in Handle
<1>1. h \in Nat /\ h >= 1 /\ h =< LastFile /\ file[h].ino = h + NDir
  BY Constants DEF Numbered, LastFile
<1>2. h + NDir =< LastCached
  BY <1>1, Constants DEF Numbered, LastFile, LastCached
<1>3. h + NDir \in 1..LastCached
  BY <1>1, <1>2, Constants DEF Numbered, LastCached
<1>4. h =< NodesMax
  BY <1>1, <1>2, Constants DEF Numbered, LastCached
<1>5. IsNode(NodeOf(h))
  BY <1>1, <1>3, Zenon DEF Numbered, NodeOf
<1> QED
  BY <1>1, <1>3, <1>4, <1>5, Constants DEF IsNode, Handle

\* The bytes in use are finitely many.
LEMMA UsedFinite ==
  ASSUME Numbered, nextIno \in Nat
  PROVE  /\ IsFiniteSet(children) /\ Cardinality(children) \in Nat
         /\ IsFiniteSet(Used) /\ Cardinality(Used) \in Nat
<1>1. IsFiniteSet(1..LastFile) /\ IsFiniteSet(Place)
  BY Constants, FS_Interval DEF LastFile, Place
<1>2. IsFiniteSet(children)
  BY <1>1, FS_Subset, Zenon DEF Numbered
<1>3. IsFiniteSet(children \X Place)
  BY <1>1, <1>2, FS_Product, Zenon
<1>4. IsFiniteSet(Used)
  BY <1>3, FS_Subset, Zenon DEF Used
<1> QED
  BY <1>2, <1>4, FS_CardinalityType, Zenon

\* tmpfs_mount, and the directories made since, leave the whole space free.
LEMMA InitInv == OneCaller /\ Init => Sound
<1> SUFFICES ASSUME OneCaller, Init PROVE Sound
  BY Zenon
<1>1. Where = "idle" /\ Loc = NoLoc /\ nextIno = NDir /\ panic = "none" /\ children = {}
  BY Zenon DEF Init, OneCaller, Where, Loc, NDir
<1>2. LastFile = 0 /\ LastCached = NDir
  BY <1>1, Constants DEF LastFile, LastCached
<1>3. TypeOK
  BY <1>1, Constants DEF Init, TypeOK, Labels, NoLoc, NDir
<1>4. Numbered
  <2>1. \A i \in 1..LastCached : IsNode(cache[i])
    BY <1>2, NewNodeIsNode, Zenon DEF Init, NDir
  <2>2. 1..LastFile = {} /\ DOMAIN file = {}
    BY <1>2 DEF Init
  <2>3. DOMAIN cache = 1..LastCached
    BY <1>2, Zenon DEF Init, NDir
  <2> QED
    BY <1>1, <1>2, <2>1, <2>2, <2>3, Constants DEF Numbered
<1>5. Kept
  BY <1>2 DEF Init, Kept
<1>6. Progress
  BY <1>1, Zenon DEF Progress
<1>7. Charges
  <2>1. Used = {} /\ Cardinality({}) = 0
    BY <1>1, FS_EmptySet, Zenon DEF Used
  <2>2. bavail = SizeMax /\ ffree = NodesMax - (NDir - 1)
    BY Zenon DEF Init, NDir
  <2> QED
    BY <1>1, <2>1, <2>2, Constants DEF Charges, Spare
<1> QED
  BY <1>3, <1>4, <1>5, <1>6, <1>7, Zenon DEF Sound

\* A step of the caller to another place, with other locals.
LEMMA Moves ==
  ASSUME OneCaller, TypeOK, NEW c \in Cpu, NEW label, Goto(c, label)
  PROVE  c = Caller /\ DOMAIN pc' = Cpu /\ Where' = label
BY DEF OneCaller, TypeOK, Goto, Where

\* The files and the counters do not depend on where the caller is, except in tmpfs_creat.
LEMMA Frame ==
  ASSUME Sound, panic = "none", panic' # "overflow", Where # "push", Where' # "push",
         UNCHANGED <<bavail, ffree, nextIno, cache, file, children, wrote>>
  PROVE  /\ Numbered' /\ Kept' /\ Charges'
         /\ LastFile' = LastFile /\ \A h : NodeOf(h)' = NodeOf(h)
<1>1. LastFile' = LastFile /\ LastCached' = LastCached
  BY Zenon DEF LastFile, LastCached
<1>2. \A h : NodeOf(h)' = NodeOf(h)
  BY Zenon DEF NodeOf
<1>3. Numbered'
  BY <1>1, Zenon DEF Sound, Numbered
<1>4. Kept'
  BY <1>1, <1>2, Zenon DEF Sound, Kept, Holds
<1>5. Used' = Used
  BY <1>2, Zenon DEF Used
<1>6. Charges'
  BY <1>2, <1>5, Zenon DEF Sound, Charges, Spare, Cut
<1> QED
  BY <1>1, <1>2, <1>3, <1>4, <1>6, Zenon

\* tmpfs_creat reads next_ino, or finds no free node.
LEMMA CreatBeginInv ==
  ASSUME OneCaller, Sound, NEW c \in Cpu, NEW d \in Dir, CreatBegin(c, d)
  PROVE  Sound'
<1>0. TypeOK /\ Progress /\ panic = "none" /\ c = Caller /\ Where = "idle"
      /\ UNCHANGED <<bavail, ffree, nextIno, cache, file, children, wrote, panic>>
  BY Zenon DEF Sound, CreatBegin, Runs, OneCaller, Where
<1>1. CASE ffree = 0
  <2>1. UNCHANGED <<pc, loc>>
    BY <1>1, Zenon DEF CreatBegin
  <2>2. Where' = Where /\ Loc' = Loc
    BY <2>1, Zenon DEF Where, Loc
  <2>3. TypeOK' /\ Progress'
    BY <1>0, <2>1, <2>2, Zenon DEF TypeOK, Progress
  <2> QED
    BY <1>0, <2>2, <2>3, Frame, Zenon DEF Sound
<1>2. CASE ffree # 0
  <2>1. Where' = "ino" /\ DOMAIN pc' = Cpu
    BY <1>0, <1>2, Moves, Zenon DEF CreatBegin
  <2>2. loc' = [loc EXCEPT ![c] = [NoLoc EXCEPT !.dir = d, !.old = nextIno]]
    BY <1>2, Zenon DEF CreatBegin
  <2>3. DOMAIN loc' = Cpu /\ Loc' = [NoLoc EXCEPT !.dir = d, !.old = nextIno]
    BY <1>0, <2>2, Zenon DEF TypeOK, Loc
  <2>4. Loc'.old = nextIno
    BY <2>3, Zenon DEF NoLoc
  <2>5. TypeOK'
    BY <1>0, <2>1, <2>3, Zenon DEF TypeOK, Labels, NoLoc
  <2>6. Progress'
    BY <1>0, <2>1, <2>4, Zenon DEF Progress
  <2> QED
    BY <1>0, <2>1, <2>5, <2>6, Frame, Zenon DEF Sound
<1> QED
  BY <1>1, <1>2, Zenon

\* ++next_ino: the number is new, and the cache makes a node for it or overflows.
LEMMA CreatInoInv ==
  ASSUME OneCaller, Sound, NEW c \in Cpu, CreatIno(c)
  PROVE  Sound'
<1> DEFINE ino == nextIno + 1
<1>0. TypeOK /\ Numbered /\ Kept /\ Progress /\ Charges /\ panic = "none" /\ c = Caller /\ Where = "ino"
      /\ UNCHANGED <<bavail, ffree, file, children, wrote>>
  BY Zenon DEF Sound, CreatIno, Runs, OneCaller, Where
<1>1. InoTaken(c) = ino /\ nextIno \in Nat /\ nextIno' = ino
  BY <1>0, Zenon DEF InoTaken, Progress, Loc, TypeOK, CreatIno
<1>2. Where' = "push" /\ DOMAIN pc' = Cpu
  BY <1>0, Moves, Zenon DEF CreatIno
<1>3. loc' = [loc EXCEPT ![c].h = ino, ![c].old = ffree]
  BY <1>1, Zenon DEF CreatIno
<1>4. Loc' = [Loc EXCEPT !.h = ino, !.old = ffree] /\ DOMAIN loc' = Cpu
  BY <1>0, <1>3, Zenon DEF TypeOK, Loc
<1>5. Loc' = [dir |-> Loc.dir, h |-> ino, pos |-> Loc.pos, len |-> Loc.len, val |-> Loc.val,
              old |-> ffree, buf |-> Loc.buf]
  BY <1>0, <1>4, Zenon DEF TypeOK
<1>6. TypeOK'
  <2>1. Loc' = [dir |-> Loc'.dir, h |-> Loc'.h, pos |-> Loc'.pos, len |-> Loc'.len, val |-> Loc'.val,
                old |-> Loc'.old, buf |-> Loc'.buf]
    BY <1>5, Zenon
  <2> QED
    BY <1>0, <1>1, <1>2, <1>4, <2>1 DEF TypeOK, Labels
<1>7. LastFile' = LastFile /\ LastCached = nextIno
  BY <1>0, <1>1, <1>2, Constants DEF LastFile, LastCached
<1>8. Cardinality(DOMAIN cache) = nextIno /\ ino \notin DOMAIN cache
  <2>1. DOMAIN cache = 1..nextIno
    BY <1>0, <1>7, Zenon DEF Numbered
  <2>2. Cardinality(1..nextIno) = nextIno
    BY <1>1, FS_Interval
  <2> QED
    BY <1>1, <2>1, <2>2
<1>9. (\A i \in 1..nextIno : cache'[i] = cache[i]) /\ Numbered'
      /\ (panic' # "overflow" => cache'[ino] = NewNode)
  <2>1. CASE nextIno = NodesMax
    <3>1. CacheFull(ino)
      BY <1>8, <2>1, Zenon DEF CacheFull
    <3>2. panic' = "overflow" /\ cache' = cache
      BY <1>1, <3>1, Zenon DEF CreatIno
    <3>3. LastCached' = nextIno
      BY <1>1, <3>2 DEF LastCached
    <3>4. Numbered'
      BY <1>0, <1>1, <1>2, <1>7, <3>2, <3>3, Constants, SMTT(30) DEF Numbered
    <3> QED
      BY <3>2, <3>4, Zenon
  <2>2. CASE nextIno # NodesMax
    <3>1. ~CacheFull(ino) /\ Loaded(ino) = NewNode
      BY <1>8, <2>2, Zenon DEF CacheFull, Loaded
    <3>2. panic' = "none" /\ cache' = Store(cache, {ino}, NewNode)
      BY <1>0, <1>1, <3>1, Zenon DEF CreatIno
    <3>3. LastCached' = ino
      BY <1>1, <3>2, Zenon DEF LastCached
    <3>4. DOMAIN cache = 1..nextIno
      BY <1>0, <1>7, Zenon DEF Numbered
    <3>5. DOMAIN cache' = 1..ino /\ cache'[ino] = NewNode /\ \A i \in 1..nextIno : cache'[i] = cache[i]
      BY <1>1, <3>2, <3>4 DEF Store
    <3>6. \A i \in 1..ino : IsNode(cache'[i])
      BY <1>0, <1>1, <1>7, <3>5, NewNodeIsNode DEF Numbered
    <3>7. ino =< NodesMax
      BY <1>0, <1>1, <1>7, <2>2, Constants DEF Numbered
    <3>8. NDir =< ino /\ NDir < ino
      BY <1>0, <1>1, Constants DEF Numbered
    <3>9. DOMAIN file' = 1..LastFile' /\ children' \subseteq 1..LastFile'
          /\ \A h \in 1..LastFile' : file'[h].ino = h + NDir
      BY <1>0, <1>7, Zenon DEF Numbered
    <3>10. Numbered'
      BY <1>1, <1>2, <3>2, <3>3, <3>5, <3>6, <3>7, <3>8, <3>9, Zenon DEF Numbered
    <3> QED
      BY <3>2, <3>5, <3>10, Zenon
  <2> QED
    BY <2>1, <2>2, Zenon
<1>10. ASSUME NEW h \in 1..LastFile PROVE NodeOf(h)' = NodeOf(h)
  <2>1. file[h].ino \in 1..nextIno
    BY <1>0, <1>1, <1>7, FilesHaveNodes, Zenon
  <2> QED
    BY <1>0, <1>9, <2>1, Zenon DEF NodeOf
<1>11. Kept'
  BY <1>0, <1>7, <1>10 DEF Kept, Holds
<1>12. Used' = Used
  BY <1>0, <1>10, Zenon DEF Used, Numbered
<1>13. Charges'
  BY <1>0, <1>10, <1>12, Zenon DEF Charges, Spare, Cut, Numbered
<1>14. Progress'
  BY <1>1, <1>0, <1>2, <1>5, <1>9, Zenon DEF Progress
<1> QED
  BY <1>6, <1>9, <1>11, <1>13, <1>14, Zenon DEF Sound

\* The new inode_t: an empty file that nobody has written.
LEMMA CreatPushInv ==
  ASSUME OneCaller, Sound, NEW c \in Cpu, CreatPush(c)
  PROVE  Sound'
<1>0. TypeOK /\ Numbered /\ Kept /\ Progress /\ Charges /\ panic = "none" /\ c = Caller /\ Where = "push"
      /\ UNCHANGED <<bavail, nextIno, cache, wrote, panic>>
  BY Zenon DEF Sound, CreatPush, Runs, OneCaller, Where
<1>1. LastFile = nextIno - NDir - 1 /\ LastFile \in Nat /\ LastCached = nextIno /\ nextIno \in Nat
  BY <1>0, Constants, SMTT(30) DEF LastFile, LastCached, TypeOK, Numbered
<1>h. PICK h \in Nat : h = LastFile + 1
  BY <1>1
<1>2. Where' = "idle" /\ DOMAIN pc' = Cpu
  BY <1>0, Moves, Zenon DEF CreatPush, Return
<1>3. LastFile' = h /\ LastCached' = nextIno
  BY <1>0, <1>1, <1>h, <1>2, Constants DEF LastFile, LastCached
<1>4. loc' = [loc EXCEPT ![c] = NoLoc]
  BY Zenon DEF CreatPush
<1>5. Loc' = NoLoc /\ DOMAIN loc' = Cpu
  BY <1>0, <1>4, Zenon DEF TypeOK, Loc
<1>6. Cardinality(DOMAIN file) + 1 = h
  <2>1. Cardinality(1..LastFile) = LastFile
    BY <1>1, FS_Interval
  <2> QED
    BY <1>0, <1>h, <2>1, Zenon DEF Numbered
<1>7. ffree' = ffree - 1 /\ children' = children \cup {h}
      /\ file' = Store(file, {h}, [ino |-> nextIno, parent |-> Loc.dir])
  BY <1>0, <1>6, Zenon DEF CreatPush, Progress, Loc
<1>8. TypeOK'
  BY <1>0, <1>2, <1>5, <1>7, SMTT(30) DEF TypeOK, Labels, NoLoc
<1>9. DOMAIN file' = 1..h /\ file'[h].ino = nextIno /\ \A g \in 1..LastFile : file'[g] = file[g]
  BY <1>h, <1>0, <1>1, <1>7, SMTT(20) DEF Numbered, Store
<1>10. \A g \in 1..h : file'[g].ino = g + NDir
  <2>1. nextIno = h + NDir
    BY <1>1, <1>h, Constants
  <2>2. \A g \in 1..h : g = h \/ g \in 1..LastFile
    BY <1>1, <1>h
  <2>3. \A g \in 1..LastFile : file[g].ino = g + NDir
    BY <1>0, Zenon DEF Numbered
  <2> QED
    BY <1>9, <2>1, <2>2, <2>3, Zenon
<1>11. Numbered'
  <2>1. NDir =< nextIno /\ nextIno =< NodesMax
    BY <1>0, <1>1, Zenon DEF Numbered
  <2>2. children' \subseteq 1..h
    <3>1. 1..LastFile \subseteq 1..h /\ h \in 1..h
      BY <1>1, <1>h
    <3>2. children \subseteq 1..LastFile
      BY <1>0, Zenon DEF Numbered
    <3> QED
      BY <1>7, <3>1, <3>2, Zenon
  <2>3. DOMAIN cache = 1..nextIno /\ \A i \in 1..nextIno : IsNode(cache[i])
    BY <1>0, <1>1, Zenon DEF Numbered
  <2> QED
    BY <1>0, <1>2, <1>3, <1>9, <1>10, <2>1, <2>2, <2>3, Zenon DEF Numbered
<1>12. NodeOf(h)' = NewNode /\ \A g \in 1..LastFile : NodeOf(g)' = NodeOf(g)
  BY <1>h, <1>0, <1>9, Zenon DEF NodeOf, Progress
<1>13. h \in Handle
  BY <1>h, <1>0, <1>1, Constants, SMTT(20) DEF Numbered, Handle
<1>14. Kept'
  <2>1. \A g \in 1..LastFile : Holds(g, NodeOf(g))'
    BY <1>0, <1>12 DEF Kept, Holds
  <2>2. DOMAIN wrote[h] = {}
    BY <1>0, <1>1, <1>h, <1>13 DEF Kept
  <2>3. Holds(h, NodeOf(h))'
    BY <1>0, <2>2, Zenon DEF Holds
  <2>4. \A g \in 1..h : Holds(g, NodeOf(g))'
    BY <1>1, <1>h, <2>1, <2>3
  <2>5. \A g \in Handle : g > h => DOMAIN wrote'[g] = {}
    BY <1>0, <1>1, <1>h DEF Kept, Handle
  <2> QED
    BY <1>0, <1>3, <2>4, <2>5, Zenon DEF Kept
<1>15. Used' = Used
  <2>1. NodeOf(h)'.size = 0
    BY <1>12 DEF NewNode
  <2>2. \A p \in Place : ~(p < 0)
    BY Constants DEF Place
  <2>3. children \subseteq 1..LastFile
    BY <1>0, Zenon DEF Numbered
  <2>4. \A x \in children \X Place : NodeOf(x[1])' = NodeOf(x[1])
    BY <1>12, <2>3, Zenon
  <2>5. \A x \in {h} \X Place : ~(x[2] < NodeOf(x[1])'.size)
    BY <2>1, <2>2, Zenon
  <2>6. children' \X Place = (children \X Place) \cup ({h} \X Place)
    BY <1>7, Zenon
  <2> QED
    BY <2>4, <2>5, <2>6, Zenon DEF Used
<1>16. Cardinality(children') = Cardinality(children) + 1
  <2>1. h \notin children
    BY <1>0, <1>1, <1>h, SMTT(30) DEF Numbered
  <2> QED
    BY <1>0, <1>1, <1>7, <2>1, UsedFinite, FS_AddElement, Zenon
<1>17. Charges'
  <2>1. \A g \in DOMAIN file : g \in DOMAIN file' /\ NodeOf(g)' = NodeOf(g)
    BY <1>0, <1>7, <1>12, Zenon DEF Numbered, Store
  <2>2. Spare'
    BY <1>0, <2>1, Zenon DEF Charges, Spare, Cut
  <2>3. ffree' + Cardinality(children') + NDir - 1 = NodesMax
    BY <1>0, <1>1, <1>7, <1>16, UsedFinite, Constants, SMTT(30) DEF Charges, TypeOK
  <2> QED
    BY <1>0, <1>15, <2>2, <2>3, Zenon DEF Charges
<1>18. Progress'
  BY <1>2, Zenon DEF Progress
<1> QED
  BY <1>8, <1>11, <1>14, <1>17, <1>18, Zenon DEF Sound

\* tmpfs_read up to the length: whatever is left of it is before the end of the file.
LEMMA ReadBeginInv ==
  ASSUME OneCaller, Sound, NEW c \in Cpu, NEW h \in DOMAIN file, NEW pos \in Pos, NEW len \in 1..MaxLen,
         ReadBegin(c, h, pos, len)
  PROVE  Sound'
<1>0. TypeOK /\ Numbered /\ panic = "none" /\ c = Caller /\ Where = "idle" /\ h \in children
      /\ UNCHANGED <<bavail, ffree, nextIno, cache, file, children, wrote, panic>>
  BY Zenon DEF Sound, ReadBegin, Runs, OneCaller, Where
<1>1. Where' = "copy" /\ DOMAIN pc' = Cpu
  BY <1>0, Moves, Zenon DEF ReadBegin
<1>2. loc' = [loc EXCEPT ![c] = [NoLoc EXCEPT !.h = h, !.pos = pos, !.len = ReadLen(NodeOf(h), pos, len)]]
  BY Zenon DEF ReadBegin
<1>3. DOMAIN loc' = Cpu /\ Loc' = [NoLoc EXCEPT !.h = h, !.pos = pos, !.len = ReadLen(NodeOf(h), pos, len)]
  BY <1>0, <1>2, Zenon DEF TypeOK, Loc
<1>4. Loc'.h = h /\ Loc'.pos = pos /\ Loc'.len = ReadLen(NodeOf(h), pos, len)
  BY <1>3, Zenon DEF NoLoc
<1>5. TypeOK'
  BY <1>0, <1>1, <1>3, Zenon DEF TypeOK, Labels, NoLoc
<1>6. pos \in Int /\ len \in Nat
  BY Constants DEF Pos
<1>7. NodeOf(h).size \in Int
  <2>1. h \in 1..LastFile /\ nextIno \in Nat
    BY <1>0, Zenon DEF Numbered, TypeOK
  <2> QED
    BY <1>0, <2>1, FilesHaveNodes, Zenon
<1>8. Loc'.len \in Int
      /\ ((pos >= 0 /\ NodeOf(h).size >= 0 /\ Loc'.len > 0) => pos + Loc'.len =< NodeOf(h).size)
  <2>1. CASE NodeOf(h) = NewNode
    <3>1. Loc'.len = 0
      BY <1>4, <2>1, Zenon DEF ReadLen
    <3> QED
      BY <3>1
  <2>2. CASE NodeOf(h) # NewNode
    <3>1. Loc'.len = IF Above(pos + len, NodeOf(h).size) THEN NodeOf(h).size - pos ELSE len
      BY <1>4, <2>2, Zenon DEF ReadLen
    <3> QED
      BY <1>6, <1>7, <3>1, SMTT(30) DEF Above
  <2> QED
    BY <2>1, <2>2, Zenon
<1>9. Numbered' /\ Kept' /\ Charges' /\ \A g : NodeOf(g)' = NodeOf(g)
  BY <1>0, <1>1, Frame, Zenon
<1>10. Progress'
  BY <1>0, <1>1, <1>4, <1>6, <1>8, <1>9, Zenon DEF Progress
<1> QED
  BY <1>5, <1>9, <1>10, Zenon DEF Sound

\* The copy out of the node.
LEMMA ReadEndInv ==
  ASSUME OneCaller, Sound, NEW c \in Cpu, ReadEnd(c)
  PROVE  Sound'
<1>0. TypeOK /\ Numbered /\ Progress /\ panic = "none" /\ panic' # "overflow" /\ c = Caller /\ Where = "copy"
      /\ UNCHANGED <<bavail, ffree, nextIno, cache, file, children, wrote>>
  BY Zenon DEF Sound, ReadEnd, Runs, OneCaller, Where
<1>1. Where' = "read" /\ DOMAIN pc' = Cpu
  BY <1>0, Moves, Zenon DEF ReadEnd
<1>2. PICK h \in children : h = Loc.h
  BY <1>0, Zenon DEF Progress
<1> DEFINE B == [p \in Bytes(Loc.pos, Loc.len) |->
                   IF p \in DOMAIN NodeOf(h).data THEN NodeOf(h).data[p] ELSE Junk]
<1>3. loc' = [loc EXCEPT ![c].buf = B]
  BY <1>0, <1>2, Zenon DEF ReadEnd, Loc
<1>4. DOMAIN loc' = Cpu /\ Loc' = [Loc EXCEPT !.buf = B]
  BY <1>0, <1>3, Zenon DEF TypeOK, Loc
<1>5. Loc' = [dir |-> Loc.dir, h |-> Loc.h, pos |-> Loc.pos, len |-> Loc.len, val |-> Loc.val,
              old |-> Loc.old, buf |-> B]
  BY <1>0, <1>4, Zenon DEF TypeOK
<1>6. Loc'.h = h /\ Loc'.buf = B /\ Loc'.pos = Loc.pos
      /\ Loc' = [dir |-> Loc'.dir, h |-> Loc'.h, pos |-> Loc'.pos, len |-> Loc'.len, val |-> Loc'.val,
                 old |-> Loc'.old, buf |-> Loc'.buf]
  BY <1>2, <1>5, Zenon
<1>7. TypeOK'
  BY <1>0, <1>1, <1>4, <1>6, Zenon DEF TypeOK, Labels
<1>8. IsNode(NodeOf(h))
  <2>1. h \in 1..LastFile /\ nextIno \in Nat
    BY <1>0, Zenon DEF Numbered, TypeOK
  <2> QED
    BY <1>0, <2>1, FilesHaveNodes, Zenon
<1>9. ASSUME NEW p \in DOMAIN B
      PROVE  /\ (Loc.pos >= 0 /\ NodeOf(h).size >= 0) => p \in 0..(NodeOf(h).size - 1)
             /\ p \in DOMAIN NodeOf(h).data => B[p] = NodeOf(h).data[p]
  <2>1. /\ Loc.pos \in Int /\ Loc.len \in Int
        /\ (Loc.pos >= 0 /\ NodeOf(h).size >= 0 /\ Loc.len > 0) => Loc.pos + Loc.len =< NodeOf(h).size
    BY <1>0, <1>2, Zenon DEF Progress
  <2>2. p \in Int /\ Loc.pos =< p /\ p =< Loc.pos + Loc.len - 1
    BY <2>1 DEF Bytes
  <2>3. (Loc.pos >= 0 /\ NodeOf(h).size >= 0) => p \in 0..(NodeOf(h).size - 1)
    BY <1>8, <2>1, <2>2, SMTT(30) DEF IsNode
  <2> QED
    BY <2>3, Zenon
<1>10. Numbered' /\ Kept' /\ Charges' /\ \A g : NodeOf(g)' = NodeOf(g)
  BY <1>0, <1>1, Frame, Zenon
<1> HIDE DEF B
<1>11. Progress'
  BY <1>0, <1>1, <1>2, <1>6, <1>9, <1>10, Zenon DEF Progress
<1> QED
  BY <1>7, <1>10, <1>11, Zenon DEF Sound

\* The return of tmpfs_read.
LEMMA ReadDoneInv ==
  ASSUME OneCaller, Sound, NEW c \in Cpu, ReadDone(c)
  PROVE  Sound'
<1>0. TypeOK /\ panic = "none" /\ c = Caller /\ Where = "read"
      /\ UNCHANGED <<bavail, ffree, nextIno, cache, file, children, wrote, panic>>
  BY Zenon DEF Sound, ReadDone, Runs, OneCaller, Where
<1>1. Where' = "idle" /\ DOMAIN pc' = Cpu
  BY <1>0, Moves, Zenon DEF ReadDone, Return
<1>2. loc' = [loc EXCEPT ![c] = NoLoc]
  BY Zenon DEF ReadDone
<1>3. DOMAIN loc' = Cpu /\ Loc' = NoLoc
  BY <1>0, <1>2, Zenon DEF TypeOK, Loc
<1>4. TypeOK' /\ Progress'
  BY <1>0, <1>1, <1>3, Zenon DEF TypeOK, Labels, NoLoc, Progress
<1> QED
  BY <1>0, <1>1, <1>4, Frame, Zenon DEF Sound

\* What realloc gives a node of the new capacity, and keeps of the old data.
LEMMA ReallocNode ==
  ASSUME NEW n, IsNode(n), NEW size \in Int, NEW cap \in Nat, size =< cap, size =< MaxEnd
  PROVE  /\ IsNode([size |-> size, capacity |-> cap, data |-> Realloc(n.data, cap)])
         /\ \A p \in 0..(n.capacity - 1) : p < cap => Realloc(n.data, cap)[p] = n.data[p]
<1>1. n.capacity \in Nat /\ n.size \in Int /\ n.size =< n.capacity /\ n.data \in [0..(n.capacity - 1) -> Char]
  BY Zenon DEF IsNode
<1>2. Realloc(n.data, cap) \in [0..(cap - 1) -> Char]
  <2>1. \A p \in 0..(cap - 1) : (IF p \in DOMAIN n.data THEN n.data[p] ELSE Junk) \in Char
    BY <1>1, Zenon DEF Char
  <2> QED
    BY <2>1, Zenon DEF Realloc
<1>3. ASSUME NEW p \in 0..(n.capacity - 1), p < cap PROVE Realloc(n.data, cap)[p] = n.data[p]
  <2>1. p \in 0..(n.capacity - 1) /\ p \in 0..(cap - 1)
    BY <1>1, <1>3
  <2> QED
    BY <1>1, <2>1, Zenon DEF Realloc
<1> DEFINE m == [size |-> size, capacity |-> cap, data |-> Realloc(n.data, cap)]
<1>4. m.size = size /\ m.capacity = cap /\ m.data = Realloc(n.data, cap)
      /\ m = [size |-> m.size, capacity |-> m.capacity, data |-> m.data]
  BY Zenon
<1> HIDE DEF m
<1>5. IsNode(m)
  BY <1>2, <1>4, Zenon DEF IsNode
<1> QED
  BY <1>3, <1>5, Zenon DEF m

\* The fields of a node one after the other.
LEMMA NodeFields ==
  ASSUME NEW n, n = [size |-> n.size, capacity |-> n.capacity, data |-> n.data], NEW x, NEW y
  PROVE  /\ [[n EXCEPT !.capacity = x] EXCEPT !.data = y] = [size |-> n.size, capacity |-> x, data |-> y]
         /\ [[n EXCEPT !.size = x] EXCEPT !.data = y] = [size |-> x, capacity |-> n.capacity, data |-> y]
<1>1. \A a, b, d : [[size |-> a, capacity |-> b, data |-> d] EXCEPT !.capacity = x]
                   = [size |-> a, capacity |-> x, data |-> d]
  OBVIOUS
<1>2. \A a, b, d : [[size |-> a, capacity |-> b, data |-> d] EXCEPT !.size = x]
                   = [size |-> x, capacity |-> b, data |-> d]
  OBVIOUS
<1>3. \A a, b, d : [[size |-> a, capacity |-> b, data |-> d] EXCEPT !.data = y]
                   = [size |-> a, capacity |-> b, data |-> y]
  OBVIOUS
<1> DEFINE k == [n EXCEPT !.capacity = x]
           m == [n EXCEPT !.size = x]
<1>4. k = [size |-> n.size, capacity |-> x, data |-> n.data]
  BY <1>1
<1>5. m = [size |-> x, capacity |-> n.capacity, data |-> n.data]
  BY <1>2
<1> HIDE DEF k, m
<1>6. [k EXCEPT !.data = y] = [size |-> n.size, capacity |-> x, data |-> y]
  BY <1>3, <1>4
<1>7. [m EXCEPT !.data = y] = [size |-> x, capacity |-> n.capacity, data |-> y]
  BY <1>3, <1>5, Zenon
<1> QED
  BY <1>6, <1>7, Zenon DEF k, m

\* A step that changes one node of the cache.
Updates(i, n) ==
  /\ DOMAIN cache' = DOMAIN cache
  /\ cache'[i] = n
  /\ \A j \in DOMAIN cache : j # i => cache'[j] = cache[j]

\* A step that changes one node leaves the other files alone.
LEMMA NodeUpdate ==
  ASSUME Numbered, nextIno \in Nat, panic = "none", panic' = "none", Where # "push", Where' # "push",
         UNCHANGED <<nextIno, file>>, children' \subseteq children, NEW h \in 1..LastFile, NEW n,
         IsNode(n), Updates(file[h].ino, n)
  PROVE  /\ Numbered' /\ LastFile' = LastFile /\ NodeOf(h)' = n
         /\ \A g \in 1..LastFile : g # h => NodeOf(g)' = NodeOf(g)
<1>1. LastFile' = LastFile /\ LastCached' = LastCached
  BY Zenon DEF LastFile, LastCached
<1>2. PICK i \in 1..LastCached : i = file[h].ino
  BY FilesHaveNodes, Zenon
<1>3. DOMAIN cache' = DOMAIN cache /\ cache'[i] = n /\ \A j \in 1..LastCached : j # i => cache'[j] = cache[j]
  BY <1>2, Zenon DEF Numbered, Updates
<1>4. \A j \in 1..LastCached : IsNode(cache'[j])
  BY <1>3, Zenon DEF Numbered
<1>5. Numbered'
  BY <1>1, <1>3, <1>4, Zenon DEF Numbered
<1>6. NodeOf(h)' = n
  BY <1>2, <1>3, Zenon DEF NodeOf
<1>7. ASSUME NEW g \in 1..LastFile, g # h PROVE NodeOf(g)' = NodeOf(g)
  <2>1. file[g].ino \in 1..LastCached /\ file[g].ino = g + NDir /\ file[h].ino = h + NDir
    BY FilesHaveNodes, Zenon
  <2>2. g \in Int /\ h \in Int /\ NDir \in Int
    BY Constants DEF LastFile
  <2>3. file[g].ino # i
    BY <1>2, <1>7, <2>1, <2>2
  <2> QED
    BY <1>3, <2>1, <2>3, Zenon DEF NodeOf
<1> QED
  BY <1>1, <1>5, <1>6, <1>7, Zenon

\* A change of one node that keeps its size keeps the space in use.
LEMMA SameSizes ==
  ASSUME Numbered, children' = children,
         \A g \in 1..LastFile : NodeOf(g)'.size = NodeOf(g).size
  PROVE  Used' = Used
<1>1. \A x \in children \X Place : NodeOf(x[1])'.size = NodeOf(x[1]).size
  BY Zenon DEF Numbered
<1> QED
  BY <1>1, Zenon DEF Used

\* The numbers of the files differ, whatever is in their nodes.
LEMMA NumbersDiffer == Numbered /\ nextIno \in Nat => InoUnique
<1> SUFFICES ASSUME Numbered, nextIno \in Nat, NEW g \in children, NEW h \in children, file[g].ino = file[h].ino
             PROVE  g = h
  BY Zenon DEF InoUnique
<1>1. g \in 1..LastFile /\ h \in 1..LastFile
  BY Zenon DEF Numbered
<1>2. g + NDir = h + NDir
  BY <1>1, Zenon DEF Numbered
<1> QED
  BY <1>1, <1>2, Constants DEF LastFile

\* tmpfs_write grows the allocation without losing what it held; a write at a negative
\* position may cut it.
LEMMA WriteBeginInv ==
  ASSUME OneCaller, Sound, NEW c \in Cpu, NEW h \in DOMAIN file, NEW pos \in Pos, NEW len \in 1..MaxLen,
         NEW v \in Val, pos + len =< MaxEnd, WriteBegin(c, h, pos, len, v)
  PROVE  Sound' \/ Strays'
<1> DEFINE node == NodeOf(h)
           end == pos + len
           Grows == TooSmall(node, end)
           Goes == (Above(end, node.size) => Room(end - node.size)) /\ ~(Grows /\ NoMemory(BufSiz + end))
<1>0. TypeOK /\ Numbered /\ Kept /\ Progress /\ Charges /\ panic = "none" /\ c = Caller /\ Where = "idle"
      /\ h \in children /\ UNCHANGED <<bavail, ffree, nextIno, file, children, wrote>>
  BY Zenon DEF Sound, WriteBegin, Runs, OneCaller, Where
<1>1. h \in 1..LastFile /\ nextIno \in Nat
  BY <1>0, Zenon DEF Numbered, TypeOK
<1>2. IsNode(node) /\ node.size \in Int /\ node.size =< MaxEnd /\ h \in Handle
  BY <1>0, <1>1, FilesHaveNodes, Zenon
<1>3. pos \in Int /\ len \in Nat /\ len > 0 /\ end \in Int /\ node.size \in Int /\ node.capacity \in Nat
  BY <1>2, Constants, SMTT(20) DEF Pos, IsNode
<1>c. file[h].ino \in DOMAIN cache
  BY <1>0, <1>1, FilesHaveNodes, Zenon DEF Numbered
<1>n. node = [size |-> node.size, capacity |-> node.capacity, data |-> node.data]
  BY <1>2, Zenon DEF IsNode
<1>4. CASE ~Goes
  <2>1. UNCHANGED <<pc, loc, cache>> /\ panic' \in {"none", "nomem"}
    BY <1>0, <1>4, Zenon DEF WriteBegin
  <2>2. Where' = Where /\ Loc' = Loc
    BY <2>1, Zenon DEF Where, Loc
  <2>3. TypeOK' /\ Progress'
    BY <1>0, <2>1, <2>2, Zenon DEF TypeOK, Progress
  <2>4. panic' # "overflow"
    BY <2>1, Zenon
  <2> QED
    BY <1>0, <2>1, <2>2, <2>3, <2>4, Frame, Zenon DEF Sound
<1>5. ASSUME Goes
      PROVE  /\ Where' = "store" /\ DOMAIN pc' = Cpu /\ DOMAIN loc' = Cpu /\ panic' = "none"
             /\ TypeOK'
             /\ Loc'.h = h /\ Loc'.pos = pos /\ Loc'.len = len /\ Loc'.val = v /\ Loc'.old = bavail
             /\ cache' = IF Grows
                         THEN [cache EXCEPT ![file[h].ino].capacity = BufSiz + end,
                                            ![file[h].ino].data = Realloc(@, BufSiz + end)]
                         ELSE cache
  <2>1. Where' = "store" /\ DOMAIN pc' = Cpu /\ panic' = "none"
    BY <1>0, <1>5, Moves, Zenon DEF WriteBegin
  <2>2. loc' = [loc EXCEPT ![c] = [NoLoc EXCEPT !.h = h, !.pos = pos, !.len = len, !.val = v, !.old = bavail]]
    BY <1>5, Zenon DEF WriteBegin
  <2>3. DOMAIN loc' = Cpu
        /\ Loc' = [NoLoc EXCEPT !.h = h, !.pos = pos, !.len = len, !.val = v, !.old = bavail]
    BY <1>0, <2>2, Zenon DEF TypeOK, Loc
  <2>4. Loc'.h = h /\ Loc'.pos = pos /\ Loc'.len = len /\ Loc'.val = v /\ Loc'.old = bavail
    BY <2>3, Zenon DEF NoLoc
  <2>5. TypeOK'
    BY <1>0, <2>1, <2>3, Zenon DEF TypeOK, Labels, NoLoc
  <2>6. cache' = IF Grows
                 THEN [cache EXCEPT ![file[h].ino].capacity = BufSiz + end,
                                    ![file[h].ino].data = Realloc(@, BufSiz + end)]
                 ELSE cache
    BY <1>5, Zenon DEF WriteBegin
  <2> QED
    BY <2>1, <2>3, <2>4, <2>5, <2>6, Zenon
<1>6. ASSUME Goes
      PROVE  \/ Grows /\ Updates(file[h].ino, [size |-> node.size, capacity |-> BufSiz + end,
                                               data |-> Realloc(node.data, BufSiz + end)])
             \/ ~Grows /\ Updates(file[h].ino, node)
  <2>1. CASE Grows
    <3>1. cache' = [cache EXCEPT ![file[h].ino].capacity = BufSiz + end,
                                 ![file[h].ino].data = Realloc(@, BufSiz + end)]
      BY <1>5, <1>6, <2>1, Zenon
    <3>2. cache'[file[h].ino] = [[node EXCEPT !.capacity = BufSiz + end] EXCEPT !.data = Realloc(node.data, BufSiz + end)]
      BY <1>c, <1>n, <3>1, Zenon DEF NodeOf
    <3>3. cache'[file[h].ino] = [size |-> node.size, capacity |-> BufSiz + end,
                                 data |-> Realloc(node.data, BufSiz + end)]
      BY <1>n, <3>2, NodeFields, Zenon
    <3> QED
      BY <2>1, <3>1, <3>3, Zenon DEF Updates
  <2>2. CASE ~Grows
    <3>1. cache' = cache
      BY <1>5, <1>6, <2>2, Zenon
    <3> QED
      BY <2>2, <3>1, Zenon DEF Updates, NodeOf
  <2> QED
    BY <2>1, <2>2, Zenon
<1>7. ASSUME Goes, pos >= 0 PROVE Sound'
  <2>1. end \in Nat /\ (Grows => node.size >= 0 /\ end > node.size /\ end > node.capacity)
        /\ (node.size >= 0 => Grows \/ end =< node.capacity)
    BY <1>2, <1>3, <1>7, SMTT(30) DEF TooSmall, Above, IsNode
  <2>6. PICK n : /\ IsNode(n) /\ Updates(file[h].ino, n)
                 /\ n.size = node.size /\ node.capacity =< n.capacity
                 /\ node.size >= 0 => end =< n.capacity
                 /\ \A p \in 0..(node.capacity - 1) : n.data[p] = node.data[p]
    <3>1. CASE Grows
      <4> DEFINE d == Realloc(node.data, BufSiz + end)
                 n == [size |-> node.size, capacity |-> BufSiz + end, data |-> d]
      <4>4. Updates(file[h].ino, n)
        BY <1>6, <1>7, <3>1, Zenon
      <4>5. BufSiz + end \in Nat /\ node.size =< BufSiz + end /\ end =< BufSiz + end /\ node.capacity =< BufSiz + end
        BY <1>2, <1>3, <2>1, <3>1, Constants
      <4>6. IsNode(n) /\ \A p \in 0..(node.capacity - 1) : p < BufSiz + end => d[p] = node.data[p]
        BY <1>2, <1>3, <4>5, ReallocNode, Zenon
      <4>7. \A p \in 0..(node.capacity - 1) : p < BufSiz + end
        BY <1>3, <4>5
      <4>8. n.size = node.size /\ n.capacity = BufSiz + end /\ n.data = d
        BY Zenon
      <4> HIDE DEF n, d, node, end
      <4> QED
        BY <4>4, <4>5, <4>6, <4>7, <4>8, Zenon
    <3>2. CASE ~Grows
      <4>1. Updates(file[h].ino, node)
        BY <1>6, <1>7, <3>2, Zenon
      <4>2. node.capacity =< node.capacity
        BY <1>3
      <4>3. node.size >= 0 => end =< node.capacity
        BY <2>1, <3>2, Zenon
      <4> QED
        BY <1>2, <4>1, <4>2, <4>3, Zenon
    <3> QED
      BY <3>1, <3>2, Zenon
  <2>7. Numbered' /\ LastFile' = LastFile /\ NodeOf(h)' = n
        /\ \A g \in 1..LastFile : g # h => NodeOf(g)' = NodeOf(g)
    BY <1>0, <1>1, <1>5, <1>7, <2>6, NodeUpdate, Zenon
  <2>8. Kept'
    <3>1. n.capacity \in Nat
      BY <2>6, Zenon DEF IsNode
    <3>2. ASSUME NEW g \in 1..LastFile PROVE Holds(g, NodeOf(g))'
      BY <1>0, <1>3, <2>6, <2>7, <3>1, SMTT(30) DEF Kept, Holds
    <3> QED
      BY <1>0, <2>7, <3>2, Zenon DEF Kept
  <2>9. Used' = Used /\ \A g \in 1..LastFile : NodeOf(g)'.size = NodeOf(g).size
    BY <1>0, <2>6, <2>7, SameSizes, Zenon
  <2>10. Charges'
    BY <1>0, <2>9, Zenon DEF Charges, Spare, Cut, Numbered
  <2>11. Progress'
    <3>1. pos \in Nat /\ len \in Nat /\ len > 0
      BY <1>3, <1>7
    <3>2. Affords(pos, len, n)'
      BY <1>0, <1>7, <2>6, Zenon DEF Affords, Room
    <3> HIDE DEF end, node
    <3>3. n.size >= 0 => pos + len =< n.capacity
      BY <2>6, Zenon DEF end
    <3> QED
      BY <1>0, <1>5, <1>7, <2>7, <3>1, <3>2, <3>3, Zenon DEF Progress, Affords, Room
  <2> QED
    BY <1>5, <1>7, <2>7, <2>8, <2>10, <2>11, Zenon DEF Sound
<1>8. ASSUME Goes, ~(pos >= 0) PROVE Strays'
  <2>1. PICK n : /\ Updates(file[h].ino, n) /\ n.size = node.size /\ DOMAIN n.data \subseteq Nat
                 /\ n = [size |-> n.size, capacity |-> n.capacity, data |-> n.data]
    <3>1. CASE Grows
      <4> DEFINE n == [size |-> node.size, capacity |-> BufSiz + end, data |-> Realloc(node.data, BufSiz + end)]
      <4>1. Updates(file[h].ino, n)
        BY <1>6, <1>8, <3>1, Zenon
      <4>2. DOMAIN n.data = 0..((BufSiz + end) - 1)
        BY Zenon DEF Realloc
      <4>3. DOMAIN n.data \subseteq Nat
        BY <1>3, <4>2, Constants
      <4>4. n.size = node.size /\ n = [size |-> n.size, capacity |-> n.capacity, data |-> n.data]
        BY Zenon
      <4> HIDE DEF n, node, end
      <4> QED
        BY <4>1, <4>3, <4>4, Zenon
    <3>2. CASE ~Grows
      <4>1. Updates(file[h].ino, node)
        BY <1>6, <1>8, <3>2, Zenon
      <4>2. DOMAIN node.data \subseteq Nat
        BY <1>2 DEF IsNode
      <4> QED
        BY <1>n, <4>1, <4>2, Zenon
    <3> QED
      BY <3>1, <3>2, Zenon
  <2>2. NodeOf(h)' = n /\ \A g \in DOMAIN file' : file'[g].ino \in DOMAIN cache'
    <3>1. \A g \in DOMAIN file : file[g].ino \in DOMAIN cache
      BY <1>0, <1>1, FilesHaveNodes, Zenon DEF Numbered
    <3> QED
      BY <1>0, <1>c, <2>1, <3>1, Zenon DEF Updates, NodeOf
  <2>3. ASSUME NEW g \in DOMAIN file PROVE NodeOf(g)'.size = NodeOf(g).size
    <3>1. file[g].ino \in DOMAIN cache
      BY <1>0, <1>1, FilesHaveNodes, Zenon DEF Numbered
    <3> QED
      BY <1>0, <2>1, <3>1, Zenon DEF Updates, NodeOf
  <2>4. InoUnique'
    BY <1>0, <1>1, NumbersDiffer, Zenon DEF InoUnique
  <2>5. Spare'
    BY <1>0, <2>3, Zenon DEF Charges, Spare, Cut
  <2>6. Affords(pos, len, n)'
    BY <1>0, <1>8, <2>1, Zenon DEF Affords, Room
  <2>7. pos < 0
    BY <1>3, <1>8
  <2>8. NodeOf(Loc.h)' = n
    BY <1>5, <1>8, <2>2, Zenon
  <2>9. Storing'
    BY <1>0, <1>3, <1>5, <1>8, <2>1, <2>2, <2>4, <2>5, <2>6, <2>8, Zenon DEF Storing, TypeOK, Affords, Room
  <2> QED
    BY <1>5, <1>8, <2>7, <2>9, Zenon DEF Strays
<1> QED
  BY <1>4, <1>7, <1>8, Zenon

\* The bytes of a file, and those of the others.
Bulk(n) == IF n.size < 0 THEN 0 ELSE n.size
Rest(h) == {x \in (children \ {h}) \X Place : x[2] < NodeOf(x[1]).size}
Split ==
  /\ Cardinality(Used) \in Nat
  /\ \A h \in children : /\ Cardinality(Rest(h)) \in Nat
                         /\ Cardinality(Used) = Cardinality(Rest(h)) + Bulk(NodeOf(h))

\* The space in use is that of one file and that of the others.
LEMMA UsedSplit == Numbered /\ nextIno \in Nat => Split
<1> SUFFICES ASSUME Numbered, nextIno \in Nat PROVE Split
  BY Zenon
<1>1. ASSUME NEW h \in children
      PROVE  /\ Cardinality(Rest(h)) \in Nat
             /\ Cardinality(Used) = Cardinality(Rest(h)) + Bulk(NodeOf(h))
  <2>1. h \in 1..LastFile
    BY Zenon DEF Numbered
  <2>2. NodeOf(h).size \in Int /\ NodeOf(h).size =< MaxEnd
    BY <2>1, FilesHaveNodes, Zenon
  <2> DEFINE s == Bulk(NodeOf(h))
             Own == {h} \X (0..(s - 1))
  <2>3. s \in Nat /\ 0..(s - 1) \subseteq Place /\ \A p \in Place : p < NodeOf(h).size <=> p \in 0..(s - 1)
    BY <2>2, Constants DEF Place, Bulk
  <2>4. Used = Rest(h) \cup Own
    <3>1. Own = {x \in {h} \X Place : x[2] < NodeOf(x[1]).size}
      BY <2>3
    <3>2. children \X Place = ((children \ {h}) \X Place) \cup ({h} \X Place)
      BY <1>1, Zenon
    <3> HIDE DEF Own
    <3> QED
      BY <3>1, <3>2, Zenon DEF Used, Rest
  <2>5. Rest(h) \cap Own = {}
    BY Zenon DEF Rest
  <2>6. Cardinality(Own) = s /\ IsFiniteSet(Own)
    <3>1. IsFiniteSet(0..(s - 1)) /\ Cardinality(0..(s - 1)) = s
      <4> HIDE DEF s
      <4>1. s \in Nat /\ s - 1 \in Int
        BY <2>3
      <4>2. IsFiniteSet(0..(s - 1)) /\ Cardinality(0..(s - 1)) = IF 0 > s - 1 THEN 0 ELSE s - 1 - 0 + 1
        BY <4>1, FS_Interval
      <4> QED
        BY <4>1, <4>2
    <3>2. IsFiniteSet({h}) /\ Cardinality({h}) = 1
      BY FS_Singleton, Zenon
    <3>3. IsFiniteSet(Own) /\ Cardinality(Own) = Cardinality({h}) * Cardinality(0..(s - 1))
      BY <3>1, <3>2, FS_Product, Zenon
    <3> HIDE DEF s, Own
    <3> QED
      BY <2>3, <3>1, <3>2, <3>3, SMTT(30)
  <2>7. IsFiniteSet(Rest(h))
    BY <2>4, UsedFinite, FS_Subset
  <2>8. Cardinality(Rest(h) \cup Own) = Cardinality(Rest(h)) + Cardinality(Own) - Cardinality(Rest(h) \cap Own)
    BY <2>6, <2>7, FS_Union, Zenon
  <2>9. Cardinality(Rest(h)) \in Nat /\ Cardinality({}) = 0
    BY <2>7, FS_CardinalityType, FS_EmptySet, Zenon
  <2> HIDE DEF s, Own
  <2>10. Cardinality(Used) = Cardinality(Rest(h)) + s
    <3>1. Cardinality(Used) = Cardinality(Rest(h) \cup Own)
      BY <2>4, Zenon
    <3>2. Cardinality(Rest(h) \cap Own) = 0
      BY <2>5, <2>9, Zenon
    <3> QED
      BY <2>3, <2>6, <2>8, <2>9, <3>1, <3>2
  <2> QED
    BY <2>9, <2>10, Zenon DEF s
<1> QED
  BY <1>1, UsedFinite, Zenon DEF Split

\* The same in the state after a step.
LEMMA UsedSplitNext == (Numbered /\ nextIno \in Nat)' => Split'
BY UsedSplit, PTL

\* The space in use is a number after a step, too.
LEMMA UsedFiniteNext == (Numbered /\ nextIno \in Nat)' => Cardinality(Used)' \in Nat
BY UsedSplitNext, Zenon DEF Split

\* A change of one file's size changes the space in use by as much.
LEMMA Resized ==
  ASSUME Numbered, Numbered', nextIno \in Nat, nextIno' = nextIno, children' = children, NEW h \in children,
         NodeOf(h)'.size \in Int, NodeOf(h).size \in Int,
         \A g \in 1..LastFile : g # h => NodeOf(g)' = NodeOf(g)
  PROVE  Cardinality(Used') = Cardinality(Used) + (Bulk(NodeOf(h)') - Bulk(NodeOf(h)))
<1>1. \A x \in (children \ {h}) \X Place : NodeOf(x[1])' = NodeOf(x[1])
  BY Zenon DEF Numbered
<1>2. Rest(h)' = Rest(h)
  BY <1>1, Zenon DEF Rest
<1>3. Cardinality(Rest(h)) \in Nat /\ Cardinality(Used) = Cardinality(Rest(h)) + Bulk(NodeOf(h))
  BY UsedSplit, Zenon DEF Split
<1>4. Cardinality(Used)' = Cardinality(Rest(h))' + Bulk(NodeOf(h)')
  BY UsedSplitNext, Zenon DEF Split, Bulk
<1>5. Bulk(NodeOf(h)') \in Int /\ Bulk(NodeOf(h)) \in Int
  BY DEF Bulk
<1> QED
  BY <1>2, <1>3, <1>4, <1>5

\* A copy that leaves its allocation spoils the heap: what is left is the numbering,
\* and the space that was charged.
LEMMA Spoils ==
  ASSUME OneCaller, Storing, NEW c \in Cpu, WriteEnd(c), panic' # "none"
  PROVE  Spoilt'
<1> DEFINE h == Loc.h
           node == NodeOf(h)
           end == Loc.pos + Loc.len
<1>0. c = Caller /\ UNCHANGED <<file, children>> /\ panic' \in {panic, "overrun"}
  BY Zenon DEF OneCaller, WriteEnd
<1>1. c = Caller /\ UNCHANGED <<file, children>> /\ panic' = "overrun"
  BY <1>0, Zenon DEF Storing
<1>2. Where' = "idle"
  BY <1>1, Zenon DEF Storing, Where, WriteEnd, Return, Goto
<1>3. InoUnique'
  BY <1>1, Zenon DEF Storing, InoUnique
<1>4. bavail' = IF Above(end, node.size) THEN bavail - (end - node.size) ELSE bavail
  BY <1>1, Zenon DEF Storing, WriteEnd, Charged, Loc
<1>5. Spare'
  <2>1. CASE Above(end, node.size)
    <3>1. bavail' > 0
      BY <1>4, <2>1, Zenon DEF Storing, Affords, Room
    <3> QED
      BY <3>1, Zenon DEF Spare
  <2>2. CASE ~Above(end, node.size)
    <3> DEFINE i == file[h].ino
               d == Store(node.data, Bytes(Loc.pos, Loc.len) \cap DOMAIN node.data, Loc.val)
    <3>1. cache' = [cache EXCEPT ![i].size = IF Above(end, @) THEN end ELSE @,
                                 ![i].data = Store(@, Bytes(Loc.pos, Loc.len) \cap DOMAIN node.data, Loc.val)]
      BY <1>1, Zenon DEF WriteEnd, Loc
    <3>2. i \in DOMAIN cache /\ node = cache[i]
          /\ node = [size |-> node.size, capacity |-> node.capacity, data |-> node.data]
      BY Zenon DEF Storing, NodeOf
    <3>3. cache'[i] = [[node EXCEPT !.size = node.size] EXCEPT !.data = d]
      BY <2>2, <3>1, <3>2, Zenon
    <3>4. cache'[i] = [size |-> node.size, capacity |-> node.capacity, data |-> d]
      BY <3>2, <3>3, NodeFields, Zenon
    <3>5. \A j \in DOMAIN cache : j # i => cache'[j] = cache[j]
      BY <3>1, Zenon
    <3> HIDE DEF i, d, node
    <3>6. cache'[i].size = node.size
      BY <3>4
    <3>7. \A g \in DOMAIN file : NodeOf(g)'.size = NodeOf(g).size
      BY <1>1, <3>2, <3>5, <3>6, Zenon DEF NodeOf, Storing
    <3> QED
      BY <1>1, <1>4, <2>2, <3>7, Zenon DEF Storing, Spare, Cut
  <2> QED
    BY <2>1, <2>2, Zenon
<1> QED
  BY <1>1, <1>2, <1>3, <1>5, Zenon DEF Spoilt

\* A write at a negative position starts before the allocation.
LEMMA StraysSpoils ==
  ASSUME OneCaller, Strays, NEW c \in Cpu, WriteEnd(c)
  PROVE  Spoilt'
<1> DEFINE at == Bytes(Loc.pos, Loc.len)
           inside == at \cap DOMAIN NodeOf(Loc.h).data
<1>1. c = Caller /\ panic' = IF inside = at THEN panic ELSE "overrun"
  BY Zenon DEF OneCaller, WriteEnd, Loc
<1>2. Loc.pos \in at
  BY DEF Strays, Storing, Bytes
<1>3. Loc.pos \notin Nat
  BY DEF Strays, Storing
<1>4. inside # at
  BY <1>2, <1>3, Zenon DEF Strays, Storing
<1>5. panic' # "none"
  BY <1>1, <1>4, Zenon
<1> QED
  BY <1>5, Spoils, Zenon DEF Strays

\* The numbers of a write about to copy.
LEMMA SoundStoring ==
  ASSUME Sound, panic = "none", Where = "store"
  PROVE  Storing
<1>0. TypeOK /\ Numbered /\ Progress /\ Charges
  BY Zenon DEF Sound
<1>1. PICK h \in children : h = Loc.h
  BY <1>0, Zenon DEF Progress
<1>2. h \in 1..LastFile /\ nextIno \in Nat
  BY <1>0, Zenon DEF Numbered, TypeOK
<1>3. IsNode(NodeOf(h)) /\ h \in DOMAIN file /\ \A g \in DOMAIN file : file[g].ino \in DOMAIN cache
  BY <1>0, <1>2, FilesHaveNodes, Zenon DEF Numbered
<1>4. InoUnique
  BY <1>0, <1>2, NumbersDiffer, Zenon
<1>5. NodeOf(h) = [size |-> NodeOf(h).size, capacity |-> NodeOf(h).capacity, data |-> NodeOf(h).data]
      /\ NodeOf(h).size \in Int /\ DOMAIN NodeOf(h).data = 0..(NodeOf(h).capacity - 1)
  BY <1>3, Zenon DEF IsNode
<1>6. DOMAIN NodeOf(h).data \subseteq Nat
  BY <1>5
<1>7. Loc.pos \in Int
  BY <1>0 DEF Progress
<1> QED
  BY <1>0, <1>1, <1>3, <1>4, <1>5, <1>6, <1>7, Zenon DEF Storing, TypeOK, Progress, Charges

\* tmpfs_write charges the growth and copies: the space in use grows by what was
\* charged, and the bytes are those of the file, unless they are outside its allocation.
LEMMA WriteEndInv ==
  ASSUME OneCaller, Sound, NEW c \in Cpu, WriteEnd(c), panic' = "none"
  PROVE  Sound'
<1>0. TypeOK /\ Numbered /\ Kept /\ Progress /\ Charges /\ panic = "none" /\ c = Caller /\ Where = "store"
      /\ UNCHANGED <<ffree, nextIno, file, children>>
  BY Zenon DEF Sound, WriteEnd, Runs, OneCaller, Where
<1>1. PICK h \in children : h = Loc.h
  BY <1>0, Zenon DEF Progress
<1>2. h \in 1..LastFile /\ nextIno \in Nat
  BY <1>0, Zenon DEF Numbered, TypeOK
<1> DEFINE node == NodeOf(h)
           end == Loc.pos + Loc.len
           at == Bytes(Loc.pos, Loc.len)
           grows == Above(end, node.size)
           size == IF grows THEN end ELSE node.size
           d == Store(node.data, at, Loc.val)
           n == [size |-> size, capacity |-> node.capacity, data |-> d]
<1>3. IsNode(node) /\ node.size \in Int /\ node.size =< MaxEnd /\ h \in Handle
  BY <1>0, <1>2, FilesHaveNodes, Zenon
<1>4. /\ Loc.pos \in Nat /\ Loc.len \in Nat /\ Loc.len > 0 /\ Loc.val \in Val /\ Loc.old = bavail
      /\ end \in Nat /\ end =< MaxEnd
      /\ node.size >= 0 => end =< node.capacity
      /\ grows => Room(end - node.size)
  <2>1. /\ Loc.pos \in Nat /\ Loc.len \in Nat /\ Loc.len > 0 /\ Loc.val \in Val /\ Loc.old = bavail
        /\ end =< MaxEnd
        /\ node.size >= 0 => end =< node.capacity
        /\ grows => Room(end - node.size)
    BY <1>0, <1>1, Zenon DEF Progress, Affords
  <2>2. end \in Nat
    BY <2>1
  <2> QED
    BY <2>1, <2>2, Zenon
<1>5. /\ node = [size |-> node.size, capacity |-> node.capacity, data |-> node.data]
      /\ node.size \in Int /\ node.capacity \in Nat /\ node.size =< node.capacity /\ node.size =< MaxEnd
      /\ node.data \in [0..(node.capacity - 1) -> Char]
  BY <1>3, Zenon DEF IsNode
<1>6. size \in Int /\ size =< node.capacity /\ size =< MaxEnd /\ (grows => node.size >= 0 /\ end > node.size)
  BY <1>4, <1>5, SMTT(30) DEF Above
<1>7. at \cap DOMAIN node.data = at /\ at \subseteq 0..(node.capacity - 1)
  <2>1. panic' = IF at \cap DOMAIN node.data = at THEN panic ELSE "overrun"
    BY <1>0, <1>1, Zenon DEF WriteEnd, Loc
  <2>2. at \cap DOMAIN node.data = at
    BY <2>1, Zenon
  <2> QED
    BY <1>5, <2>2, Zenon
<1>8. d \in [0..(node.capacity - 1) -> Char] /\ (\A p \in at : d[p] = Loc.val)
      /\ \A p \in DOMAIN node.data : p \notin at => d[p] = node.data[p]
  BY <1>4, <1>5, <1>7, Zenon DEF Store, Char
<1>9. cache' = [cache EXCEPT ![file[h].ino].size = IF Above(end, @) THEN end ELSE @,
                             ![file[h].ino].data = Store(@, at, Loc.val)]
      /\ wrote' = [wrote EXCEPT ![h] = Store(@, at, Loc.val)]
      /\ bavail' = Charged(bavail, node, end)
  <2>1. cache' = [cache EXCEPT ![file[h].ino].size = IF Above(end, @) THEN end ELSE @,
                               ![file[h].ino].data = Store(@, at \cap DOMAIN node.data, Loc.val)]
        /\ wrote' = [wrote EXCEPT ![h] = Store(@, at \cap DOMAIN node.data, Loc.val)]
        /\ bavail' = Charged(Loc.old, node, end)
    BY <1>0, <1>1, Zenon DEF WriteEnd, Loc
  <2> HIDE DEF at, node, end
  <2> QED
    BY <1>4, <1>7, <2>1, Zenon
<1>10. Updates(file[h].ino, n)
  <2>1. file[h].ino \in DOMAIN cache
    BY <1>0, <1>2, FilesHaveNodes, Zenon DEF Numbered
  <2>2. cache'[file[h].ino] = [[node EXCEPT !.size = size] EXCEPT !.data = d]
    BY <1>5, <1>9, <2>1, Zenon DEF NodeOf
  <2>3. cache'[file[h].ino] = n
    BY <1>5, <2>2, NodeFields, Zenon
  <2> QED
    BY <1>9, <2>3, Zenon DEF Updates
<1>11. n.size = size /\ n.capacity = node.capacity /\ n.data = d
       /\ n = [size |-> n.size, capacity |-> n.capacity, data |-> n.data]
  BY Zenon
<1> HIDE DEF n, d, size, at, end, node, grows
<1>12. IsNode(n)
  BY <1>5, <1>6, <1>8, <1>11, Zenon DEF IsNode
<1>13. Where' = "idle" /\ DOMAIN pc' = Cpu
  BY <1>0, Moves, Zenon DEF WriteEnd, Return
<1>14. loc' = [loc EXCEPT ![c] = NoLoc]
  BY Zenon DEF WriteEnd
<1>15. DOMAIN loc' = Cpu /\ Loc' = NoLoc
  BY <1>0, <1>14, Zenon DEF TypeOK, Loc
<1>16. Numbered' /\ LastFile' = LastFile /\ NodeOf(h)' = n
       /\ \A g \in 1..LastFile : g # h => NodeOf(g)' = NodeOf(g)
  BY <1>0, <1>2, <1>10, <1>12, <1>13, NodeUpdate, Zenon
<1>17. bavail' \in Int /\ (grows => bavail' = bavail - (end - node.size) /\ bavail' > 0)
       /\ (~grows => bavail' = bavail)
  <2>1. bavail \in Int
    BY <1>0, Zenon DEF TypeOK
  <2>2. end \in Int /\ node.size \in Int
    BY <1>4, <1>5
  <2>3. bavail' = IF grows THEN bavail - (end - node.size) ELSE bavail
    BY <1>9, Zenon DEF Charged, grows
  <2>4. grows => bavail - (end - node.size) > 0
    BY <1>4, Zenon DEF Room
  <2> QED
    BY <2>1, <2>2, <2>3, <2>4
<1>18. TypeOK'
  BY <1>0, <1>13, <1>15, <1>17, Zenon DEF TypeOK, Labels, NoLoc
<1>19. Kept'
  <2>1. DOMAIN wrote = Handle /\ DOMAIN wrote' = Handle /\ wrote'[h] = Store(wrote[h], at, Loc.val)
        /\ \A g \in Handle : g # h => wrote'[g] = wrote[g]
    BY <1>0, <1>3, <1>9, Zenon DEF Kept
  <2>2. \A p \in DOMAIN wrote[h] : p \in 0..(node.capacity - 1) /\ node.data[p] = wrote[h][p]
    BY <1>0, <1>2, Zenon DEF Kept, Holds, node
  <2>3. ASSUME NEW p \in DOMAIN wrote'[h] PROVE p \in 0..(n.capacity - 1) /\ n.data[p] = wrote'[h][p]
    <3>1. DOMAIN wrote'[h] = DOMAIN wrote[h] \cup at /\ wrote'[h][p] = IF p \in at THEN Loc.val ELSE wrote[h][p]
      BY <2>1, <2>3, Zenon DEF Store
    <3>2. CASE p \in at
      BY <1>7, <1>8, <1>11, <3>1, <3>2, Zenon
    <3>3. CASE p \notin at
      <4>1. p \in 0..(node.capacity - 1) /\ node.data[p] = wrote[h][p]
        BY <2>2, <2>3, <3>1, <3>3, Zenon
      <4>2. p \in DOMAIN node.data
        BY <1>5, <4>1, Zenon
      <4> QED
        BY <1>8, <1>11, <3>1, <3>3, <4>1, <4>2, Zenon
    <3> QED
      BY <3>2, <3>3, Zenon
  <2>4. Holds(h, NodeOf(h))'
    BY <1>16, <2>3, Zenon DEF Holds
  <2>5. ASSUME NEW g \in 1..LastFile, g # h PROVE Holds(g, NodeOf(g))'
    <3>1. g \in Handle
      BY <1>0, <1>2, FilesHaveNodes, Zenon
    <3> QED
      BY <1>0, <1>16, <2>1, <2>5, <3>1, SMTT(30) DEF Kept, Holds
  <2>6. \A g \in Handle : g > LastFile => DOMAIN wrote'[g] = {}
    <3>1. h =< LastFile
      BY <1>2 DEF LastFile
    <3>2. \A g \in Handle : g > LastFile => g # h
      BY <1>2, <3>1, Constants DEF Handle, LastFile
    <3> QED
      BY <1>0, <2>1, <3>2, Zenon DEF Kept
  <2> QED
    BY <1>16, <2>1, <2>4, <2>5, <2>6, SMTT(30) DEF Kept
<1>20. Progress'
  BY <1>13, Zenon DEF Progress
<1>21. Cardinality(Used') = Cardinality(Used) + (Bulk(n) - Bulk(node))
  BY <1>0, <1>1, <1>2, <1>5, <1>6, <1>11, <1>16, Resized, Zenon DEF node
<1>22. bavail' + Cardinality(Used') =< SizeMax
  <2> DEFINE u == Cardinality(Used)
             w == Cardinality(Used')
  <2>1. u \in Nat /\ w \in Nat
    BY <1>0, <1>2, <1>16, UsedFinite, UsedFiniteNext, Zenon
  <2>2. bavail + u =< SizeMax /\ bavail \in Int
    BY <1>0, Zenon DEF Charges, TypeOK
  <2>3. w = u + (Bulk(n) - Bulk(node))
    BY <1>21, Zenon
  <2> HIDE DEF u, w
  <2>4. CASE grows
    <3>1. n.size = end
      BY <1>11, <2>4, Zenon DEF size
    <3>2. Bulk(n) = end /\ Bulk(node) = node.size
      BY <1>4, <1>5, <1>6, <2>4, <3>1, SMTT(30) DEF Bulk
    <3>3. bavail' + w =< SizeMax
      BY <1>4, <1>5, <1>17, <2>1, <2>2, <2>3, <2>4, <3>2, Constants, SMTT(30)
    <3> QED
      BY <3>3, Zenon DEF w
  <2>5. CASE ~grows
    <3>1. n.size = node.size
      BY <1>11, <2>5, Zenon DEF size
    <3>2. Bulk(n) = Bulk(node) /\ Bulk(node) \in Int
      BY <1>5, <3>1, SMTT(30) DEF Bulk
    <3>3. bavail' + w =< SizeMax
      BY <1>17, <2>1, <2>2, <2>3, <2>5, <3>2, Constants, SMTT(30)
    <3> QED
      BY <3>3, Zenon DEF w
  <2> QED
    BY <2>4, <2>5, Zenon
<1>23. Spare'
  <2>1. CASE grows
    BY <1>17, <2>1, Zenon DEF Spare
  <2>2. CASE ~grows
    <3>1. n.size = node.size
      BY <1>11, <2>2, Zenon DEF size
    <3>2. \A g \in DOMAIN file : NodeOf(g)'.size = NodeOf(g).size
      BY <1>0, <1>16, <3>1, Zenon DEF Numbered, node
    <3> QED
      BY <1>0, <1>17, <2>2, <3>2, Zenon DEF Charges, Spare, Cut
  <2> QED
    BY <2>1, <2>2, Zenon
<1>24. Charges'
  BY <1>0, <1>22, <1>23, Zenon DEF Charges
<1> QED
  BY <1>16, <1>18, <1>19, <1>20, <1>24, Zenon DEF Sound

\* tmpfs_truncate shrinks the file: what is left of it, and of the other files, stays.
LEMMA TruncateInv ==
  ASSUME OneCaller, Sound, NEW c \in Cpu, NEW h \in DOMAIN file, NEW len \in Pos, Truncate(c, h, len)
  PROVE  Sound'
<1> DEFINE node == NodeOf(h)
           d == Realloc(node.data, BufSiz + len)
           n == [size |-> len, capacity |-> BufSiz + len, data |-> d]
<1>0. TypeOK /\ Numbered /\ Kept /\ Progress /\ Charges /\ panic = "none" /\ Where = "idle"
      /\ h \in children /\ len < node.size /\ UNCHANGED <<ffree, nextIno, file, children, pc, loc>>
  BY Zenon DEF Sound, Truncate, Runs, OneCaller, Where
<1>1. h \in 1..LastFile /\ nextIno \in Nat
  BY <1>0, Zenon DEF Numbered, TypeOK
<1>2. IsNode(node) /\ node.size \in Int /\ node.size =< MaxEnd /\ h \in Handle
  BY <1>0, <1>1, FilesHaveNodes, Zenon
<1>3. len \in Int /\ node.size \in Int /\ len =< MaxEnd /\ BufSiz + len \in Int /\ len =< BufSiz + len
  BY <1>2, Constants DEF Pos
<1>9. Where' = Where /\ Loc' = Loc
  BY <1>0, Zenon DEF Where, Loc
<1>17. CASE NoMemory(BufSiz + len)
  <2>1. panic' = "nomem" /\ UNCHANGED <<bavail, cache, wrote>>
    BY <1>17, Zenon DEF Truncate
  <2>2. TypeOK' /\ Progress'
    BY <1>0, <1>9, <2>1, Zenon DEF TypeOK, Progress
  <2> QED
    BY <1>0, <1>9, <2>1, <2>2, Frame, Zenon DEF Sound
<1> SUFFICES ASSUME ~NoMemory(BufSiz + len) PROVE Sound'
  BY <1>17, Zenon
<1>18. BufSiz + len \in Nat
  BY <1>3 DEF NoMemory
<1>4. cache' = [cache EXCEPT ![file[h].ino] = n] /\ panic' = "none"
      /\ wrote' = [wrote EXCEPT ![h] = [p \in DOMAIN @ \cap 0..(len - 1) |-> @[p]]]
  BY <1>0, Zenon DEF Truncate
<1>5. bavail' = bavail /\ bavail \in Int
  BY <1>0, SMTT(20) DEF Truncate, GivenBack, TypeOK
<1>6. IsNode(n) /\ \A p \in 0..(node.capacity - 1) : p < BufSiz + len => d[p] = node.data[p]
  BY <1>2, <1>3, <1>18, ReallocNode, Zenon
<1>7. n.size = len /\ n.capacity = BufSiz + len /\ n.data = d
  BY Zenon
<1> HIDE DEF n, d
<1>8. Updates(file[h].ino, n)
  <2>1. file[h].ino \in DOMAIN cache
    BY <1>0, <1>1, FilesHaveNodes, Zenon DEF Numbered
  <2> QED
    BY <1>4, <2>1, Zenon DEF Updates
<1>10. Numbered' /\ LastFile' = LastFile /\ NodeOf(h)' = n
       /\ \A g \in 1..LastFile : g # h => NodeOf(g)' = NodeOf(g)
  BY <1>0, <1>1, <1>4, <1>6, <1>8, <1>9, NodeUpdate, Zenon
<1>11. TypeOK' /\ Progress'
  BY <1>0, <1>5, <1>9, Zenon DEF TypeOK, Progress
<1>12. Kept'
  <2>1. DOMAIN wrote' = Handle /\ wrote'[h] = [p \in DOMAIN wrote[h] \cap 0..(len - 1) |-> wrote[h][p]]
        /\ \A g \in Handle : g # h => wrote'[g] = wrote[g]
    BY <1>0, <1>2, <1>4, Zenon DEF Kept
  <2>2. \A p \in DOMAIN wrote[h] : p \in 0..(node.capacity - 1) /\ node.data[p] = wrote[h][p]
    BY <1>0, <1>1, Zenon DEF Kept, Holds
  <2>3. ASSUME NEW p \in DOMAIN wrote'[h] PROVE p \in 0..(n.capacity - 1) /\ n.data[p] = wrote'[h][p]
    <3>1. p \in DOMAIN wrote[h] /\ p \in 0..(len - 1) /\ wrote'[h][p] = wrote[h][p]
      BY <2>1, <2>3, Zenon
    <3>2. p < BufSiz + len /\ p \in 0..((BufSiz + len) - 1)
      BY <1>3, <3>1, Constants
    <3>3. p \in 0..(node.capacity - 1) /\ node.data[p] = wrote[h][p]
      BY <2>2, <3>1, Zenon
    <3> HIDE DEF node
    <3> QED
      BY <1>6, <1>7, <3>1, <3>2, <3>3, Zenon
  <2>4. Holds(h, NodeOf(h))'
    BY <1>10, <2>3, Zenon DEF Holds
  <2>5. ASSUME NEW g \in 1..LastFile, g # h PROVE Holds(g, NodeOf(g))'
    <3>1. g \in Handle
      BY <1>0, <1>1, FilesHaveNodes, Zenon
    <3> QED
      BY <1>0, <1>10, <2>1, <2>5, <3>1, SMTT(20) DEF Kept, Holds
  <2>6. \A g \in Handle : g > LastFile => DOMAIN wrote'[g] = {}
    <3>1. h =< LastFile
      BY <1>1 DEF LastFile
    <3>2. \A g \in Handle : g > LastFile => g # h
      BY <1>1, <3>1, Constants, SMTT(30) DEF Handle, LastFile
    <3> QED
      BY <1>0, <2>1, <3>2, Zenon DEF Kept
  <2> QED
    BY <1>10, <2>1, <2>4, <2>5, <2>6, Zenon DEF Kept
<1>13. Cardinality(Used') = Cardinality(Used) + (Bulk(n) - Bulk(node))
  BY <1>0, <1>1, <1>3, <1>7, <1>10, Resized, Zenon
<1>14. Cardinality(Used) \in Nat /\ Cardinality(Used') \in Nat
  BY <1>0, <1>1, <1>10, UsedFinite, UsedFiniteNext, Zenon
<1>15. bavail' + Cardinality(Used') =< SizeMax
  <2>1. bavail + Cardinality(Used) =< SizeMax
    BY <1>0, Zenon DEF Charges
  <2>2. Bulk(n) \in Int /\ Bulk(node) \in Int /\ Bulk(n) =< Bulk(node)
    BY <1>0, <1>3, <1>7, SMTT(30) DEF Bulk
  <2> QED
    BY <1>5, <1>13, <1>14, <2>1, <2>2, Constants, SMTT(30)
<1>16. Charges'
  <2>1. n.size < node.size
    BY <1>0, <1>7, Zenon
  <2>2. ASSUME NEW g \in DOMAIN file, NodeOf(g).size < 0 PROVE NodeOf(g)'.size < 0
    <3>1. CASE g = h
      <4>1. n.size \in Int /\ node.size < 0
        BY <1>3, <1>7, <2>2, <3>1, Zenon
      <4>2. n.size < 0
        BY <1>3, <2>1, <4>1
      <4> QED
        BY <1>10, <3>1, <4>2, Zenon
    <3>2. CASE g # h
      BY <1>0, <1>10, <2>2, <3>2, Zenon DEF Numbered
    <3> QED
      BY <3>1, <3>2, Zenon
  <2>3. Spare'
    BY <1>0, <1>5, <2>2, Zenon DEF Charges, Spare, Cut
  <2> QED
    BY <1>0, <1>15, <2>3, Zenon DEF Charges
<1> QED
  BY <1>10, <1>11, <1>12, <1>16, Zenon DEF Sound

\* tmpfs_unlink gives back the node and exactly the space of the file.
LEMMA UnlinkInv ==
  ASSUME OneCaller, Sound, NEW c \in Cpu, NEW h \in DOMAIN file, Unlink(c, h)
  PROVE  Sound'
<1>0. TypeOK /\ Numbered /\ Kept /\ Progress /\ Charges /\ panic = "none" /\ Where = "idle"
      /\ h \in children /\ children' = children \ {h}
      /\ ffree' = ffree + 1 /\ bavail' = bavail + NodeOf(h).size
      /\ UNCHANGED <<nextIno, cache, file, wrote, pc, loc, panic>>
  BY Zenon DEF Sound, Unlink, Runs, OneCaller, Where, FfreeAfter
<1>1. Where' = Where /\ Loc' = Loc /\ LastFile' = LastFile /\ LastCached' = LastCached
      /\ \A g : NodeOf(g)' = NodeOf(g)
  BY <1>0, Zenon DEF Where, Loc, LastFile, LastCached, NodeOf
<1>2. h \in 1..LastFile /\ nextIno \in Nat /\ bavail \in Int /\ ffree \in Int
  BY <1>0, Zenon DEF Numbered, TypeOK
<1>3. NodeOf(h).size \in Int
  BY <1>0, <1>2, FilesHaveNodes, Zenon
<1>4. TypeOK'
  BY <1>0, <1>1, <1>2, <1>3 DEF TypeOK
<1>5. Numbered'
  BY <1>0, <1>1, Zenon DEF Numbered
<1>6. Kept'
  BY <1>0, <1>1, Zenon DEF Kept, Holds
<1>7. Progress'
  BY <1>0, <1>1, Zenon DEF Progress
<1>8. Used' = Rest(h)
  BY <1>0, <1>1, Zenon DEF Used, Rest
<1>9. Cardinality(Used) = Cardinality(Rest(h)) + Bulk(NodeOf(h)) /\ Cardinality(Rest(h)) \in Nat
      /\ NodeOf(h).size =< Bulk(NodeOf(h)) /\ Bulk(NodeOf(h)) \in Int
  <2>1. Cardinality(Used) = Cardinality(Rest(h)) + Bulk(NodeOf(h)) /\ Cardinality(Rest(h)) \in Nat
    BY <1>0, <1>2, UsedSplit, Zenon DEF Split
  <2>2. NodeOf(h).size =< Bulk(NodeOf(h)) /\ Bulk(NodeOf(h)) \in Int
    BY <1>3 DEF Bulk
  <2> QED
    BY <2>1, <2>2, Zenon
<1>10. Cardinality(children') = Cardinality(children) - 1 /\ Cardinality(children) \in Nat
  BY <1>0, <1>2, UsedFinite, FS_RemoveElement, Zenon
<1>11. bavail + Cardinality(Used) =< SizeMax /\ ffree + Cardinality(children) + NDir - 1 = NodesMax
       /\ Spare
  BY <1>0, Zenon DEF Charges
<1>12. bavail' + Cardinality(Used') =< SizeMax /\ ffree' + Cardinality(children') + NDir - 1 = NodesMax
  BY <1>0, <1>2, <1>3, <1>8, <1>9, <1>10, <1>11, Constants, SMTT(30)
<1>13. Spare'
  <2>1. CASE NodeOf(h).size < 0
    BY <1>0, <1>1, <2>1, Zenon DEF Spare, Cut
  <2>2. CASE ~(NodeOf(h).size < 0)
    <3>1. bavail > 0 => bavail' > 0
      BY <1>0, <1>2, <1>3, <2>2
    <3>2. Cut' <=> Cut
      BY <1>0, <1>1, Zenon DEF Cut
    <3> QED
      BY <1>11, <3>1, <3>2, Zenon DEF Spare
  <2> QED
    BY <2>1, <2>2, Zenon
<1>14. Charges'
  BY <1>12, <1>13, Zenon DEF Charges
<1> QED
  BY <1>4, <1>5, <1>6, <1>7, <1>14, Zenon DEF Sound

\* Every step keeps the invariant.
LEMMA NextInv == OneCaller /\ TmpfsInv /\ [Next]_vars => TmpfsInv'
<1> SUFFICES ASSUME OneCaller, TmpfsInv, [Next]_vars PROVE TmpfsInv'
  BY Zenon
<1>1. ASSUME Sound, NEW c \in Cpu,
             \/ CreatIno(c) \/ CreatPush(c) \/ ReadEnd(c) \/ ReadDone(c)
             \/ \E d \in Dir : CreatBegin(c, d)
      PROVE  TmpfsInv'
  BY <1>1, CreatInoInv, CreatPushInv, ReadEndInv, ReadDoneInv, CreatBeginInv, Zenon DEF TmpfsInv
<1>2. ASSUME NEW c \in Cpu, WriteEnd(c), ~Spoilt PROVE TmpfsInv'
  <2>1. Sound \/ Strays
    BY <1>2, Zenon DEF TmpfsInv
  <2>2. CASE Strays
    BY <1>2, <2>2, StraysSpoils, Zenon DEF TmpfsInv
  <2>3. CASE Sound /\ panic' = "none"
    BY <1>2, <2>3, WriteEndInv, Zenon DEF TmpfsInv
  <2>4. CASE Sound /\ panic' # "none"
    <3>1. panic = "none" /\ Where = "store"
      BY <1>2, Zenon DEF WriteEnd, Runs, OneCaller, Where
    <3> QED
      BY <1>2, <2>4, <3>1, SoundStoring, Spoils, Zenon DEF TmpfsInv
  <2> QED
    BY <2>1, <2>2, <2>3, <2>4, Zenon
<1>3. ASSUME Sound, NEW c \in Cpu, NEW h \in DOMAIN file, Unlink(c, h) PROVE TmpfsInv'
  BY <1>3, UnlinkInv, Zenon DEF TmpfsInv
<1>4. ASSUME Sound, NEW c \in Cpu, NEW h \in DOMAIN file, NEW len \in Pos, Truncate(c, h, len) PROVE TmpfsInv'
  BY <1>4, TruncateInv, Zenon DEF TmpfsInv
<1>5. ASSUME Sound, NEW c \in Cpu, NEW h \in DOMAIN file, NEW pos \in Pos, NEW len \in 1..MaxLen,
             \/ ReadBegin(c, h, pos, len)
             \/ pos + len =< MaxEnd /\ \E v \in Val : WriteBegin(c, h, pos, len, v)
      PROVE  TmpfsInv'
  BY <1>5, ReadBeginInv, WriteBeginInv, Zenon DEF TmpfsInv
<1>6. ASSUME Strays, NEW c \in Cpu
      PROVE  /\ ~CreatIno(c) /\ ~CreatPush(c) /\ ~ReadEnd(c) /\ ~ReadDone(c)
             /\ \A d \in Dir : ~CreatBegin(c, d)
             /\ \A h \in DOMAIN file :
                  /\ ~Unlink(c, h)
                  /\ \A len \in Pos : ~Truncate(c, h, len)
                  /\ \A pos \in Pos, len \in 1..MaxLen :
                       ~ReadBegin(c, h, pos, len) /\ \A v \in Val : ~WriteBegin(c, h, pos, len, v)
  <2>1. pc[c] = "store"
    BY <1>6, Zenon DEF Strays, Storing, Where, OneCaller
  <2>2. ~CreatIno(c) /\ ~CreatPush(c) /\ ~ReadEnd(c) /\ ~ReadDone(c)
    BY <2>1, Zenon DEF CreatIno, CreatPush, ReadEnd, ReadDone
  <2>3. \A d : ~CreatBegin(c, d)
    BY <2>1, Zenon DEF CreatBegin
  <2>4. \A h : ~Unlink(c, h)
    BY <2>1, Zenon DEF Unlink
  <2>5. \A h, len : ~Truncate(c, h, len)
    BY <2>1, Zenon DEF Truncate
  <2>6. \A h, pos, len : ~ReadBegin(c, h, pos, len)
    BY <2>1, Zenon DEF ReadBegin
  <2>7. ASSUME NEW h, NEW pos, NEW len, NEW v, WriteBegin(c, h, pos, len, v) PROVE FALSE
    <3>1. pc[c] = "idle" /\ Runs
      BY <2>7, Zenon DEF WriteBegin
    <3> QED
      BY <2>1, <3>1, Zenon
  <2> QED
    BY <2>2, <2>3, <2>4, <2>5, <2>6, <2>7, Zenon
<1>7. ASSUME Spoilt, NEW c \in Cpu
      PROVE  /\ ~CreatIno(c) /\ ~CreatPush(c) /\ ~ReadEnd(c) /\ ~ReadDone(c) /\ ~WriteEnd(c)
             /\ \A d \in Dir : ~CreatBegin(c, d)
             /\ \A h \in DOMAIN file :
                  /\ ~Unlink(c, h)
                  /\ \A len \in Pos : ~Truncate(c, h, len)
                  /\ \A pos \in Pos, len \in 1..MaxLen :
                       ~ReadBegin(c, h, pos, len) /\ \A v \in Val : ~WriteBegin(c, h, pos, len, v)
  <2>1. ~Runs
    BY <1>7, Zenon DEF Spoilt, Runs
  <2>2. ~CreatIno(c) /\ ~CreatPush(c) /\ ~ReadEnd(c) /\ ~ReadDone(c) /\ ~WriteEnd(c)
    BY <2>1, Zenon DEF CreatIno, CreatPush, ReadEnd, ReadDone, WriteEnd
  <2>3. \A d : ~CreatBegin(c, d)
    BY <2>1, Zenon DEF CreatBegin
  <2>4. \A h : ~Unlink(c, h)
    BY <2>1, Zenon DEF Unlink
  <2>5. \A h, len : ~Truncate(c, h, len)
    BY <2>1, Zenon DEF Truncate
  <2>6. \A h, pos, len : ~ReadBegin(c, h, pos, len)
    BY <2>1, Zenon DEF ReadBegin
  <2>7. ASSUME NEW h, NEW pos, NEW len, NEW v, WriteBegin(c, h, pos, len, v) PROVE FALSE
    <3>1. pc[c] = "idle" /\ Runs
      BY <2>7, Zenon DEF WriteBegin
    <3> QED
      BY <2>1, <3>1, Zenon
  <2> QED
    BY <2>2, <2>3, <2>4, <2>5, <2>6, <2>7, Zenon
<1>8. CASE UNCHANGED vars
  <2> USE <1>8 DEF vars
  <2>1. Where' = Where /\ Loc' = Loc /\ LastFile' = LastFile /\ LastCached' = LastCached
        /\ \A h : NodeOf(h)' = NodeOf(h)
    BY Zenon DEF Where, Loc, LastFile, LastCached, NodeOf
  <2>2. Used' = Used /\ (Spare <=> Spare') /\ (InoUnique <=> InoUnique')
    BY <2>1, Zenon DEF Used, Spare, Cut, InoUnique
  <2>3. ASSUME Sound PROVE Sound'
    <3>1. TypeOK' /\ Numbered'
      BY <2>1, <2>3, Zenon DEF Sound, TypeOK, Numbered
    <3>2. Kept' /\ Progress'
      BY <2>1, <2>3, Zenon DEF Sound, Kept, Holds, Progress, Affords, Room
    <3>3. Charges'
      BY <2>2, <2>3, Zenon DEF Sound, Charges
    <3> QED
      BY <3>1, <3>2, <3>3, Zenon DEF Sound
  <2>4. ASSUME Strays PROVE Strays'
    BY <2>1, <2>2, <2>4, Zenon DEF Strays, Storing, Affords, Room
  <2>5. ASSUME Spoilt PROVE Spoilt'
    BY <2>1, <2>2, <2>5, Zenon DEF Spoilt
  <2> QED
    BY <2>3, <2>4, <2>5, Zenon DEF TmpfsInv
<1>9. ASSUME Next PROVE TmpfsInv'
  <2>1. CASE Sound
    <3>1. ~Spoilt \/ Spoilt
      BY Zenon
    <3> QED
      BY <1>1, <1>2, <1>3, <1>4, <1>5, <1>7, <1>9, <2>1, <3>1, Zenon DEF Next
  <2>2. CASE Strays
    <3>1. ~Spoilt
      BY <2>2, Zenon DEF Strays, Storing, Spoilt
    <3> QED
      BY <1>2, <1>6, <1>9, <2>2, <3>1, Zenon DEF Next
  <2>3. CASE Spoilt
    BY <1>7, <1>9, <2>3, Zenon DEF Next
  <2> QED
    BY <2>1, <2>2, <2>3, Zenon DEF TmpfsInv
<1> QED
  BY <1>8, <1>9, Zenon

\* With one caller, size, capacity, allocation, numbering and counters of tmpfs stay in
\* step through every sequence of creat, write, truncate, read and unlink.
THEOREM TmpfsSafe == OneCaller => (Spec => []TmpfsInv)
<1> SUFFICES ASSUME OneCaller PROVE Spec => []TmpfsInv
  BY Zenon
<1>1. Init => TmpfsInv
  BY InitInv, Zenon DEF TmpfsInv
<1>2. TmpfsInv /\ [Next]_vars => TmpfsInv'
  BY NextInv, Zenon
<1> QED
  BY <1>1, <1>2, PTL DEF Spec

\* With one caller, the copies of tmpfs_write stay inside the allocation of the file,
\* whatever was written, cut and unlinked before, except for a write at a negative
\* position and a write to a file that was cut to a negative length.
THEOREM WritesInBounds == OneCaller => (Spec => []CopiesInBounds)
<1> SUFFICES ASSUME OneCaller PROVE Spec => []CopiesInBounds
  BY Zenon
<1>1. TmpfsInv => CopiesInBounds
  <2>1. ASSUME Sound PROVE CopiesInBounds
    <3>1. TypeOK /\ Numbered /\ Progress
      BY <2>1, Zenon DEF Sound
    <3>2. \A i \in DOMAIN cache :
            cache[i].size =< cache[i].capacity /\ DOMAIN cache[i].data = 0..(cache[i].capacity - 1)
      BY <3>1, Zenon DEF Numbered, IsNode
    <3>3. ASSUME Where = "store", NodeOf(Loc.h).size >= 0
          PROVE  Bytes(Loc.pos, Loc.len) \subseteq DOMAIN NodeOf(Loc.h).data
      <4>1. PICK h \in 1..LastFile : h = Loc.h
        BY <3>1, <3>3, Zenon DEF Progress, Numbered
      <4>2. Loc.pos \in Nat /\ Loc.len \in Nat /\ Loc.pos + Loc.len =< NodeOf(h).capacity
        BY <3>1, <3>3, <4>1, Zenon DEF Progress
      <4>3. IsNode(NodeOf(h))
        BY <3>1, FilesHaveNodes, Zenon DEF TypeOK
      <4>4. DOMAIN NodeOf(h).data = 0..(NodeOf(h).capacity - 1) /\ NodeOf(h).capacity \in Nat
        BY <4>3, Zenon DEF IsNode
      <4>5. Bytes(Loc.pos, Loc.len) \subseteq 0..(NodeOf(h).capacity - 1)
        BY <4>2, <4>4, SMTT(30) DEF Bytes
      <4> QED
        BY <4>1, <4>4, <4>5, Zenon
    <3> QED
      BY <3>2, <3>3, Zenon DEF CopiesInBounds, OneCaller, Where, Loc
  <2>2. ASSUME Strays PROVE CopiesInBounds
    <3>1. pc[Caller] = "store" /\ loc[Caller].pos < 0 /\ ~(loc[Caller].pos >= 0)
      BY <2>2 DEF Strays, Storing, Where, Loc
    <3> QED
      BY <3>1, Zenon DEF CopiesInBounds, Astray, OneCaller
  <2>3. ASSUME Spoilt PROVE CopiesInBounds
    BY <2>3, Zenon DEF Spoilt, CopiesInBounds, Runs, OneCaller, Where
  <2> QED
    BY <2>1, <2>2, <2>3, Zenon DEF TmpfsInv
<1>2. Spec => []TmpfsInv
  BY TmpfsSafe, Zenon
<1> QED
  BY <1>1, <1>2, PTL

\* With one caller, tmpfs_read returns what was last written to the file, and nothing
\* from outside a file that was not cut to a negative length, unless asked for a
\* negative position.
THEOREM ReadsWhatWasWritten == OneCaller => (Spec => []ReadBack)
<1> SUFFICES ASSUME OneCaller PROVE Spec => []ReadBack
  BY Zenon
<1>1. TmpfsInv => ReadBack
  <2> SUFFICES ASSUME TmpfsInv, Where = "read", NEW p \in DOMAIN Loc.buf
               PROVE  /\ (Loc.pos >= 0 /\ NodeOf(Loc.h).size >= 0) => p \in 0..(NodeOf(Loc.h).size - 1)
                      /\ p \in DOMAIN wrote[Loc.h] => Loc.buf[p] = wrote[Loc.h][p]
    BY Zenon DEF ReadBack, OneCaller, Where, Loc
  <2>1. TypeOK /\ Numbered /\ Kept /\ Progress
    BY Zenon DEF TmpfsInv, Sound, Strays, Storing, Spoilt
  <2>2. PICK h \in 1..LastFile : h = Loc.h
    BY <2>1, Zenon DEF Progress, Numbered
  <2>3. /\ (Loc.pos >= 0 /\ NodeOf(h).size >= 0) => p \in 0..(NodeOf(h).size - 1)
        /\ p \in DOMAIN NodeOf(h).data => Loc.buf[p] = NodeOf(h).data[p]
    BY <2>1, <2>2, Zenon DEF Progress
  <2>4. DOMAIN NodeOf(h).data = 0..(NodeOf(h).capacity - 1)
    <3>1. IsNode(NodeOf(h))
      BY <2>1, FilesHaveNodes, Zenon DEF TypeOK
    <3> QED
      BY <3>1, Zenon DEF IsNode
  <2>5. p \in DOMAIN wrote[h] => p \in DOMAIN NodeOf(h).data /\ NodeOf(h).data[p] = wrote[h][p]
    BY <2>1, <2>4, Zenon DEF Kept, Holds
  <2> QED
    BY <2>2, <2>3, <2>5, Zenon
<1>2. Spec => []TmpfsInv
  BY TmpfsSafe, Zenon
<1> QED
  BY <1>1, <1>2, PTL

\* With one caller, tmpfs_creat never gives two files one inode number.
THEOREM NumbersNeverShared == OneCaller => (Spec => []InoUnique)
<1> SUFFICES ASSUME OneCaller PROVE Spec => []InoUnique
  BY Zenon
<1>1. TmpfsInv => InoUnique
  BY NumbersDiffer, Zenon DEF TmpfsInv, Sound, TypeOK, Strays, Storing, Spoilt
<1>2. Spec => []TmpfsInv
  BY TmpfsSafe, Zenon
<1> QED
  BY <1>1, <1>2, PTL

\* With one caller, the counters of free space and free nodes in the superblock never
\* promise more than the volume has, through every write, truncate and unlink; the free
\* space is used up only where a file was cut to a negative length.
THEOREM SpaceNeverOverpromised == OneCaller => (Spec => []SpaceBound)
<1> SUFFICES ASSUME OneCaller PROVE Spec => []SpaceBound
  BY Zenon
<1>1. TmpfsInv => SpaceBound
  <2>1. ASSUME Sound PROVE SpaceBound
    BY <2>1, Zenon DEF Sound, Charges, Spare, SpaceBound, NDir
  <2>2. ASSUME Strays PROVE SpaceBound
    <3>1. Caller \in Cpu /\ pc[Caller] # "idle" /\ Spare
      BY <2>2, Zenon DEF Strays, Storing, Where, OneCaller
    <3> QED
      BY <3>1, Zenon DEF Spare, SpaceBound
  <2>3. ASSUME Spoilt PROVE SpaceBound
    BY <2>3, Zenon DEF Spoilt, Spare, SpaceBound, Runs
  <2> QED
    BY <2>1, <2>2, <2>3, Zenon DEF TmpfsInv
<1>2. Spec => []TmpfsInv
  BY TmpfsSafe, Zenon
<1> QED
  BY <1>1, <1>2, PTL
====
