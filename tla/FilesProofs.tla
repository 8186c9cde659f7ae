---------------------------- MODULE FilesProofs -----------------------------
(***************************************************************************)
(* No call loses or mixes up a descriptor, the cache of inodes never gets  *)
(* one twice, a directory and a name lead to one inode, and only a cycle   *)
(* of bind mounts keeps a call from coming back, for tables of any size,   *)
(* any volume and any calls.                                               *)
(***************************************************************************)
EXTENDS Files, WellFoundedInduction, TLAPS

\* Inside a call that has a descriptor of its own, that one is all that tells
\* the table from what the program was given.
FdInv ==
    /\ fd = [f \in 0 .. NFD - 1 |-> fd[f]]
    /\ kept = [f \in 0 .. NFD - 1 |-> kept[f]]
    /\ Running /\ pc # "opened" => fd = kept
    /\ Running /\ pc = "opened" =>
          /\ file \in 0 .. NFD - 1
          /\ kept[file] = 0
          /\ fd = [kept EXCEPT ![file] = fd[file]]

\* The cache holds inodes, and its assertion has not failed.
CacheInv ==
    /\ inode \in Seq(Range(inode))
    /\ dcache \in Seq(Nat)
    /\ Range(dcache) \subseteq 1 .. Len(inode)
    /\ panic # "dcache"

-----------------------------------------------------------------------------
(* Descriptors                                                             *)

\* A set of naturals that is not empty has a least element.
LEMMA LeastExists ==
    ASSUME NEW S \in SUBSET Nat, S # {}
    PROVE  \E x \in S : \A y \in S : x <= y
<1>1. PICK x \in S : \A y \in S : ~(<<y, x>> \in OpToRel(<, Nat))
  BY NatLessThanWellFounded, WFMin, Zenon
<1>2. ASSUME NEW y \in S, ~(x <= y) PROVE FALSE
  <2>1. y < x /\ y \in Nat /\ x \in Nat
    BY <1>2
  <2>2. <<y, x>> \in OpToRel(<, Nat)
    BY <2>1, Zenon DEF OpToRel
  <2> QED
    BY <1>1, <2>2, Zenon
<1> QED
  BY <1>2, Zenon

\* The entry that sys_open takes is in the table and free.
LEMMA LowestIsFree ==
    ASSUME fd = [f \in 0 .. NFD - 1 |-> fd[f]], Free # {}
    PROVE  LowestFree \in 0 .. NFD - 1 /\ fd[LowestFree] = 0
<1>1. Free \in SUBSET Nat
  <2>1. NFD \in Nat /\ DOMAIN fd = 0 .. NFD - 1
    BY FilesAssumption, Zenon
  <2> QED
    BY <2>1 DEF Free
<1>2. \E x \in Free : \A y \in Free : x <= y
  BY <1>1, LeastExists, Zenon
<1>3. LowestFree \in Free
  BY <1>2, Zenon DEF LowestFree
<1> QED
  BY <1>3, Zenon DEF Free

\* sys_open gives the call an entry of its own, or fails and gives none.
LEMMA InstallFd ==
    ASSUME FdInv, Running, pc # "opened", NEW r, Install(r), UNCHANGED kept
    PROVE  FdInv'
<1>1. fd = kept
  BY Zenon DEF FdInv
<1>2. CASE Free = {}
  <2>1. Fail /\ UNCHANGED fd
    BY <1>2, Zenon DEF Install
  <2>2. pc' = "idle"
    BY <2>1, Zenon DEF Fail, NoCall
  <2> QED
    BY <1>1, <2>1, <2>2, Zenon DEF FdInv
<1>3. CASE Free # {}
  <2>1. LowestFree \in 0 .. NFD - 1 /\ fd[LowestFree] = 0
    BY <1>3, LowestIsFree, Zenon DEF FdInv
  <2>2. fd' = [fd EXCEPT ![LowestFree] = r] /\ file' = LowestFree /\ pc' = "opened"
    BY <1>3, Zenon DEF Install
  <2>3. fd' = [kept' EXCEPT ![file'] = fd'[file']] /\ kept'[file'] = 0
    BY <1>1, <2>1, <2>2, Zenon DEF FdInv
  <2> QED
    BY <2>1, <2>2, <2>3, Zenon DEF FdInv
<1> QED
  BY <1>2, <1>3, Zenon

\* A call that is over: its descriptor was closed, or is the program's now.
LEMMA EndFd ==
    ASSUME FdInv, Running, pc = "opened", pc' # "opened",
           \/ fd' = Closed(file) /\ UNCHANGED kept
           \/ UNCHANGED fd /\ kept' = [kept EXCEPT ![file] = fd[file]]
    PROVE  FdInv'
<1>1. /\ file \in 0 .. NFD - 1
      /\ kept[file] = 0
      /\ fd = [kept EXCEPT ![file] = fd[file]]
  BY Zenon DEF FdInv
<1>2. CASE fd' = Closed(file) /\ UNCHANGED kept
  <2>1. fd' = kept
    BY <1>1, <1>2, Zenon DEF FdInv, Closed
  <2> QED
    BY <1>2, <2>1, Zenon DEF FdInv
<1>3. CASE UNCHANGED fd /\ kept' = [kept EXCEPT ![file] = fd[file]]
  <2>1. kept' = fd
    BY <1>1, <1>3, Zenon
  <2> QED
    BY <1>3, <2>1, Zenon DEF FdInv
<1> QED
  BY <1>2, <1>3, Zenon

\* A kernel that stops in a call leaves tables behind.
LEMMA StopFd ==
    ASSUME FdInv, ~Running', UNCHANGED kept, UNCHANGED fd \/ fd' = Closed(file)
    PROVE  FdInv'
BY Zenon DEF FdInv, Closed

\* Every step keeps the invariant of the descriptors.
LEMMA FdStep == FdInv /\ [Next]_vars => FdInv'
<1> SUFFICES ASSUME FdInv, [Next]_vars PROVE FdInv'
  BY Zenon
<1>1. ASSUME NEW r, Begin(r) PROVE FdInv'
  BY <1>1, Zenon DEF Begin, FdInv, task, Running
<1>2. CASE BootCall
  BY <1>1, <1>2, Zenon DEF BootCall
<1>3. CASE ProgramCall
  BY <1>1, <1>3, Zenon DEF ProgramCall
<1>4. CASE WalkEmpty
  <2>1. UNCHANGED <<fd, kept>> /\ pc = "walk" /\ Running
    BY <1>4, Zenon DEF WalkEmpty, task
  <2>2. pc' # "opened" \/ ~Running'
    BY <1>4, Zenon DEF WalkEmpty, kpanic, Running
  <2> QED
    BY <2>1, <2>2, Zenon DEF FdInv
<1>5. CASE WalkStops
  BY <1>5, Zenon DEF WalkStops, FdInv, task, flow, kpanic
<1>6. ASSUME Walk, pc' \in {"walk", "found"} PROVE FdInv'
  BY <1>6, Zenon DEF Walk, FdInv, task, Running
<1>7. CASE WalkMissing \/ WalkLink \/ WalkOn
  <2>1. Walk /\ pc' \in {"walk", "found"}
    BY <1>7, Zenon DEF WalkMissing, WalkLink, WalkOn, Walk
  <2> QED
    BY <1>6, <2>1, Zenon
<1>8. CASE OpenExisting
  <2>1. Running /\ pc = "found" /\ UNCHANGED kept
    BY <1>8, Zenon DEF OpenExisting, AtFound
  <2>2. CASE Install(look.at)
    BY <2>1, <2>2, InstallFd, Zenon
  <2>3. CASE (Fail \/ kpanic("deadlock")) /\ UNCHANGED fd
    BY <2>1, <2>3, Zenon DEF Fail, NoCall, kpanic, flow, FdInv
  <2> QED
    BY <1>8, <2>2, <2>3, Zenon DEF OpenExisting
<1>9. CASE OpenMissing
  BY <1>9, Zenon DEF OpenMissing, AtFound, Fail, NoCall, kpanic, flow, task, FdInv
<1>10. CASE OpenCreates
  <2>1. Running /\ pc = "found" /\ UNCHANGED kept
    BY <1>10, Zenon DEF OpenCreates, AtFound
  <2>2. CASE Install(Len(inode'))
    BY <2>1, <2>2, InstallFd, Zenon
  <2>3. CASE kpanic("dcache") /\ UNCHANGED fd
    BY <2>1, <2>3, Zenon DEF kpanic, flow, FdInv
  <2> QED
    BY <1>10, <2>2, <2>3, Zenon DEF OpenCreates
<1>11. CASE Opens \/ Closes \/ Chdir \/ Chroot \/ Mkdev
  <2>1. Running /\ pc = "opened" /\ pc' = "idle"
    BY <1>11, Zenon DEF Opens, Closes, Chdir, Chroot, Mkdev, Opened, Return, NoCall
  <2>2. \/ fd' = Closed(file) /\ UNCHANGED kept
        \/ UNCHANGED fd /\ kept' = [kept EXCEPT ![file] = fd[file]]
    BY <1>11, Zenon DEF Opens, Closes, Chdir, Chroot, Mkdev
  <2> QED
    BY <2>1, <2>2, EndFd, Zenon
<1>12. CASE Mount
  <2>1. Running /\ pc = "opened" /\ fd' = Closed(file) /\ UNCHANGED kept
    BY <1>12, Zenon DEF Mount, Opened
  <2>2. ASSUME NEW dev, NEW dir, vfs_mount(dev, dir) PROVE pc' = "idle" \/ ~Running'
    BY <2>2, Zenon DEF vfs_mount, Fail, Return, NoCall, kpanic, Running
  <2>3. pc' # "opened" \/ ~Running'
    BY <1>12, <2>2, Zenon DEF Mount, OpenSecond
  <2>4. CASE ~Running'
    BY <2>1, <2>4, StopFd, Zenon
  <2>5. CASE pc' # "opened"
    BY <2>1, <2>5, EndFd, Zenon
  <2> QED
    BY <2>3, <2>4, <2>5, Zenon
<1>13. CASE Execve
  <2>1. Running /\ pc = "opened" /\ pc' # "opened"
    BY <1>13, Zenon DEF Execve, Opened, OpenSecond, Fail, Return, NoCall
  <2>2. \/ fd' = Closed(file) /\ UNCHANGED kept
        \/ UNCHANGED fd /\ kept' = [kept EXCEPT ![file] = fd[file]]
    BY <1>13, Zenon DEF Execve
  <2> QED
    BY <2>1, <2>2, EndFd, Zenon
<1>14. ASSUME NEW f \in DOMAIN fd, Close(f) PROVE FdInv'
  <2>1. CASE fd[f] = 0
    BY <1>14, <2>1, Zenon DEF Close, kpanic, flow, FdInv, Running
  <2>2. CASE fd[f] # 0
    <3>1. /\ fd' = Closed(f) /\ kept' = [kept EXCEPT ![f] = 0]
          /\ Running /\ pc = "idle" /\ pc' = "idle"
      BY <1>14, <2>2, Zenon DEF Close, flow
    <3> QED
      BY <3>1, Zenon DEF Closed, FdInv
  <2> QED
    BY <2>1, <2>2, Zenon
<1>15. ASSUME NEW f \in DOMAIN fd, fchdir(f) PROVE FdInv'
  BY <1>15, Zenon DEF fchdir, flow, FdInv, Running
<1>16. CASE UNCHANGED vars
  BY <1>16, Zenon DEF vars, FdInv, Running
<1> QED
  BY <1>2, <1>3, <1>4, <1>5, <1>7, <1>8, <1>9, <1>10, <1>11, <1>12, <1>13,
     <1>14, <1>15, <1>16, SMTT(30) DEF Next, Stopped

-----------------------------------------------------------------------------
(* The cache of inodes                                                     *)

\* A directory that mount or device_mkdev changes is still the same inode.
LEMMA ChangedInode ==
    ASSUME NEW s, s \in Seq(Range(s)), NEW t, t = [i \in DOMAIN s |-> t[i]]
    PROVE  t \in Seq(Range(t)) /\ Len(t) = Len(s)
<1>1. DOMAIN s = 1 .. Len(s) /\ Len(s) \in Nat
  OBVIOUS
<1>2. t \in [1 .. Len(s) -> Range(t)]
  BY <1>1, Zenon DEF Range
<1>3. t \in Seq(Range(t))
  BY <1>1, <1>2
<1>4. Len(t) = Len(s)
  BY <1>1, <1>2, <1>3
<1> QED
  BY <1>3, <1>4, Zenon

\* An inode is made behind all the others.
LEMMA NewInode ==
    ASSUME NEW s, s \in Seq(Range(s)), NEW x
    PROVE  /\ Append(s, x) \in Seq(Range(Append(s, x)))
           /\ Len(Append(s, x)) = Len(s) + 1
           /\ Len(s) \in Nat
<1>1. DOMAIN s = 1 .. Len(s) /\ Len(s) \in Nat
  OBVIOUS
<1> DEFINE t == Append(s, x)
<1>2. s \in Seq(Range(s) \cup {x})
  <2>1. s \in [1 .. Len(s) -> Range(s) \cup {x}]
    BY <1>1 DEF Range
  <2> QED
    BY <1>1, <2>1
<1>3. Len(t) = Len(s) + 1 /\ DOMAIN t = 1 .. Len(s) + 1 /\ t \in Seq(Range(s) \cup {x})
  BY <1>2
<1> HIDE DEF t
<1>4. t \in [1 .. Len(s) + 1 -> Range(t)]
  BY <1>1, <1>3 DEF Range
<1>5. t \in Seq(Range(t))
  BY <1>1, <1>4, SMTT(30)
<1> QED
  BY <1>1, <1>3, <1>5, Zenon DEF t

\* What a sequence gets from Append.
LEMMA CacheAppend ==
    ASSUME NEW s \in Seq(Nat), NEW r \in Nat
    PROVE  Append(s, r) \in Seq(Nat) /\ Range(Append(s, r)) = Range(s) \cup {r}
<1>1. /\ DOMAIN s = 1 .. Len(s)
      /\ Len(s) \in Nat
      /\ DOMAIN Append(s, r) = 1 .. Len(s) + 1
      /\ \A i \in 1 .. Len(s) : Append(s, r)[i] = s[i]
      /\ Append(s, r)[Len(s) + 1] = r
      /\ Append(s, r) \in Seq(Nat)
  OBVIOUS
<1> QED
  BY <1>1, SMTT(30) DEF Range

\* If the cache has no entry for a directory and a name it has no inode with
\* this directory and name.
LEMMA NotCached ==
    ASSUME dcache \in Seq(Nat), NEW p, NEW n, vfs_dcache_find(p, n) = 0,
           Range(dcache) \subseteq 1 .. Len(inode), Len(inode) \in Nat
    PROVE  \A r \in Range(dcache) : ~(inode[r].parent = p /\ inode[r].name = n)
<1> DEFINE hits == {k \in DOMAIN dcache : /\ inode[dcache[k]].parent = p
                                         /\ inode[dcache[k]].name = n}
           first1 == CHOOSE k \in hits : \A j \in hits : k <= j
<1>1. CASE hits = {}
  BY <1>1, Zenon DEF Range
<1>2. CASE hits # {}
  <2>1. hits \in SUBSET Nat
    BY SMTT(30)
  <2>2. \E k \in hits : \A j \in hits : k <= j
    <3> HIDE DEF hits
    <3> QED
      BY <1>2, <2>1, LeastExists, Zenon
  <2>3. first1 \in hits
    <3> HIDE DEF hits
    <3> QED
      BY <2>2, Zenon
  <2>4. vfs_dcache_find(p, n) = dcache[first1]
    BY <1>2, Zenon DEF vfs_dcache_find
  <2>5. dcache[first1] \in 1 .. Len(inode)
    <3> HIDE DEF first1
    <3> QED
      BY <2>3, Zenon DEF Range
  <2> QED
    BY <2>4, <2>5
<1> QED
  BY <1>1, <1>2, Zenon

\* What a file system finds and the cache had not is new to the cache: the
\* assertion of vfs_dcache_add holds in vfs_finddir.
LEMMA HitIsNew ==
    ASSUME CacheInv, HitUncached
    PROVE  /\ Hit \notin Range(dcache)
           /\ Hit \in 1 .. Len(inode) + 1
<1> DEFINE d == LastHop(look.at, Component)
           n == Component
<1>1. n \notin {".", ".."} /\ Hit # 0 /\ vfs_dcache_find(d, n) = 0
  BY Zenon DEF HitUncached, Searches
<1>2. Len(inode) \in Nat /\ DOMAIN inode = 1 .. Len(inode)
  BY DEF CacheInv
<1>3. \A r \in Range(dcache) : ~(inode[r].parent = d /\ inode[r].name = n)
  BY <1>1, <1>2, NotCached, Zenon DEF CacheInv
<1>4. \/ tmpfs_finddir(d, n) # {} /\ Hit = CHOOSE k \in tmpfs_finddir(d, n) : TRUE
      \/ Hit = Len(inode) + 1
  BY <1>1, Zenon DEF Hit, vfs_finddir
<1>5. CASE Hit = Len(inode) + 1
  <2>1. Hit \notin 1 .. Len(inode)
    BY <1>2, <1>5
  <2> QED
    BY <1>2, <1>5, <2>1 DEF CacheInv
<1>6. CASE tmpfs_finddir(d, n) # {} /\ Hit = CHOOSE k \in tmpfs_finddir(d, n) : TRUE
  <2>1. Hit \in tmpfs_finddir(d, n)
    BY <1>6, Zenon
  <2>2. Hit \in DOMAIN inode /\ inode[Hit].parent = d /\ inode[Hit].name = n
    BY <2>1, Zenon DEF tmpfs_finddir
  <2> QED
    BY <1>2, <1>3, <2>2
<1> QED
  BY <1>4, <1>5, <1>6, Zenon

\* One call of vfs_finddir adds what was found.
LEMMA OneAdder == \A i, n : \A a, b \in Adders(i, n) : a = b
BY Zenon DEF Adders

\* The assertion of vfs_dcache_add holds for what vfs_finddir finds.
LEMMA NeverAsserts == CacheInv => ~AssertsCache
BY HitIsNew, OneAdder, Zenon DEF AssertsCache, AddFails

\* A step of path_find keeps the cache sound.
LEMMA WalkCache ==
    ASSUME CacheInv, Walk
    PROVE  CacheInv'
<1>1. Len(inode) \in Nat /\ inode \in Seq(Range(inode)) /\ dcache \in Seq(Nat)
  BY DEF CacheInv
<1>2. /\ inode' \in Seq(Range(inode'))
      /\ Len(inode') = IF HitNew THEN Len(inode) + 1 ELSE Len(inode)
  BY <1>1, NewInode, Zenon DEF Walk
<1>3. panic' # "dcache"
  BY Zenon DEF Walk, Running
<1>4. CASE HitUncached
  <2>1. Hit \in 1 .. Len(inode) + 1
    BY <1>4, HitIsNew, Zenon
  <2>2. Hit \in 1 .. Len(inode')
    BY <1>1, <1>2, <2>1 DEF HitNew
  <2>3. dcache' = Append(dcache, Hit)
    BY <1>4, Zenon DEF Walk, vfs_dcache_add
  <2>4. dcache' \in Seq(Nat) /\ Range(dcache') = Range(dcache) \cup {Hit}
    BY <1>1, <2>1, <2>3, CacheAppend
  <2>5. Range(dcache') \subseteq 1 .. Len(inode')
    <3>1. Range(dcache) \subseteq 1 .. Len(inode)
      BY Zenon DEF CacheInv
    <3> QED
      BY <1>1, <1>2, <2>2, <2>4, <3>1, SMTT(30)
  <2> QED
    BY <1>2, <1>3, <2>4, <2>5, Zenon DEF CacheInv
<1>5. CASE ~HitUncached
  <2>1. dcache' = dcache
    BY <1>5, Zenon DEF Walk
  <2>2. Range(dcache) \subseteq 1 .. Len(inode')
    <3>1. Range(dcache) \subseteq 1 .. Len(inode)
      BY Zenon DEF CacheInv
    <3> QED
      BY <1>1, <1>2, <3>1, SMTT(30)
  <2> QED
    BY <1>1, <1>2, <1>3, <2>1, <2>2, Zenon DEF CacheInv
<1> QED
  BY <1>4, <1>5, Zenon

\* A new file gets a new inode, so vfs_creat adds it to the cache once.
LEMMA CreateCache ==
    ASSUME CacheInv, OpenCreates
    PROVE  CacheInv'
<1>1. Len(inode) \in Nat /\ inode \in Seq(Range(inode)) /\ dcache \in Seq(Nat)
  BY DEF CacheInv
<1>2. Range(dcache) \subseteq 1 .. Len(inode)
  BY Zenon DEF CacheInv
<1>3. PICK x : inode' = Append(inode, x)
  BY Zenon DEF OpenCreates
<1>4. inode' \in Seq(Range(inode')) /\ Len(inode') = Len(inode) + 1
  BY <1>1, <1>3, NewInode, Zenon
<1>5. Len(inode') \notin Range(dcache)
  BY <1>1, <1>2, <1>4
<1>6. ~AddFails(Len(inode'), look.dir, "")
  BY <1>5, OneAdder, Zenon DEF AddFails
<1>7. dcache' = Append(dcache, Len(inode')) /\ Install(Len(inode'))
  BY <1>6, Zenon DEF OpenCreates, vfs_dcache_add
<1>8. dcache' \in Seq(Nat) /\ Range(dcache') = Range(dcache) \cup {Len(inode')}
  BY <1>1, <1>4, <1>7, CacheAppend, SMTT(30)
<1>9. Range(dcache') \subseteq 1 .. Len(inode')
  BY <1>1, <1>2, <1>4, <1>8
<1>10. panic' # "dcache"
  BY <1>7, Zenon DEF Install, Fail, CacheInv
<1> QED
  BY <1>4, <1>8, <1>9, <1>10, Zenon DEF CacheInv

\* Steps that make no inode.
LEMMA SameCache ==
    ASSUME CacheInv, UNCHANGED dcache, panic' # "dcache",
           inode' = [i \in DOMAIN inode |-> inode'[i]]
    PROVE  CacheInv'
<1>1. inode' \in Seq(Range(inode')) /\ Len(inode') = Len(inode)
  BY ChangedInode, Zenon DEF CacheInv
<1> QED
  BY <1>1, Zenon DEF CacheInv

\* Every step keeps the cache sound.
LEMMA CacheStep == CacheInv /\ [Next]_vars => CacheInv'
<1> SUFFICES ASSUME CacheInv, [Next]_vars PROVE CacheInv'
  BY Zenon
<1>0. inode = [i \in DOMAIN inode |-> inode[i]]
  BY DEF CacheInv
<1>1. ASSUME UNCHANGED <<inode, dcache>>, panic' # "dcache" PROVE CacheInv'
  BY <1>1, Zenon DEF CacheInv
<1>2. CASE BootCall \/ ProgramCall
  BY <1>1, <1>2, Zenon DEF BootCall, ProgramCall, Begin, store, CacheInv
<1>3. CASE WalkEmpty
  BY <1>1, <1>3, Zenon DEF WalkEmpty, kpanic, store, CacheInv
<1>4. CASE WalkStops
  <2>1. ~AssertsCache
    BY NeverAsserts, Zenon
  <2>2. panic' = CASE Hangs        -> "hang"
                   [] AssertsCache -> "dcache"
                   [] OTHER        -> "deadlock"
    BY <1>4, Zenon DEF WalkStops, kpanic
  <2>3. panic' # "dcache"
    BY <2>1, <2>2, Zenon
  <2> QED
    BY <1>1, <1>4, <2>3, Zenon DEF WalkStops, store
<1>5. CASE WalkMissing \/ WalkLink \/ WalkOn
  BY <1>5, WalkCache, Zenon DEF WalkMissing, WalkLink, WalkOn
<1>6. CASE OpenExisting
  <2>1. panic' # "dcache"
    BY <1>6, Zenon DEF OpenExisting, Install, Fail, kpanic, CacheInv
  <2> QED
    BY <1>1, <1>6, <2>1, Zenon DEF OpenExisting, store
<1>7. CASE OpenMissing
  <2>1. panic' # "dcache"
    BY <1>7, Zenon DEF OpenMissing, Fail, kpanic, CacheInv
  <2> QED
    BY <1>1, <1>7, <2>1, Zenon DEF OpenMissing, store
<1>8. CASE OpenCreates
  BY <1>8, CreateCache, Zenon
<1>9. CASE Opens \/ Closes \/ Chdir \/ Chroot
  BY <1>1, <1>9, Zenon DEF Opens, Closes, Chdir, Chroot, Return, store, CacheInv
<1>10. CASE Mkdev
  <2>1. inode' = [i \in DOMAIN inode |-> inode'[i]]
    BY <1>10, Zenon DEF Mkdev
  <2>2. UNCHANGED <<dcache, panic>>
    BY <1>10, Zenon DEF Mkdev, Return
  <2> QED
    BY <2>1, <2>2, SameCache, Zenon DEF CacheInv
<1>11. CASE Mount
  <2>1. ASSUME NEW dev, NEW dir, vfs_mount(dev, dir) PROVE CacheInv'
    <3>1. panic' # "dcache" /\ UNCHANGED dcache
      BY <2>1, Zenon DEF vfs_mount, Fail, Return, kpanic, store, CacheInv
    <3>2. inode' = [i \in DOMAIN inode |-> inode'[i]]
      BY <1>0, <2>1, Zenon DEF vfs_mount, store
    <3> QED
      BY <3>1, <3>2, SameCache, Zenon
  <2>2. CASE OpenSecond /\ UNCHANGED store
    BY <1>1, <2>2, Zenon DEF OpenSecond, store, CacheInv
  <2> QED
    BY <1>11, <2>1, <2>2, Zenon DEF Mount
<1>12. CASE Execve
  BY <1>1, <1>12, Zenon DEF Execve, OpenSecond, Fail, Return, store, CacheInv
<1>13. ASSUME NEW f \in DOMAIN fd, Close(f) \/ fchdir(f) PROVE CacheInv'
  BY <1>1, <1>13, Zenon DEF Close, fchdir, kpanic, store, CacheInv
<1>14. CASE UNCHANGED vars
  BY <1>1, <1>14, Zenon DEF vars, CacheInv
<1> QED
  BY <1>2, <1>3, <1>4, <1>5, <1>6, <1>7, <1>8, <1>9, <1>10, <1>11, <1>12,
     <1>13, <1>14, Zenon DEF Next, Stopped

-----------------------------------------------------------------------------
(* Induction                                                               *)

\* What holds at 0 and goes from each number to the next holds up to the last.
LEMMA Induct ==
    ASSUME NEW N \in Nat, NEW B, 0 \in B, \A k \in 1 .. N : k - 1 \in B => k \in B
    PROVE  0 .. N \subseteq B
<1> DEFINE Out == {k \in 0 .. N : k \notin B}
<1> SUFFICES ASSUME Out # {} PROVE FALSE
  OBVIOUS
<1>1. PICK k \in Out : \A j \in Out : k <= j
  <2>1. Out \in SUBSET Nat
    OBVIOUS
  <2> HIDE DEF Out
  <2> QED
    BY <2>1, LeastExists
<1>2. k \in 0 .. N /\ k \notin B /\ k # 0
  OBVIOUS
<1>3. k \in 1 .. N /\ k - 1 \in 0 .. N /\ ~(k <= k - 1)
  BY <1>2
<1>4. k - 1 \notin Out
  <2> HIDE DEF Out
  <2> QED
    BY <1>1, <1>3
<1>5. k - 1 \in B
  BY <1>3, <1>4
<1> QED
  BY <1>2, <1>3, <1>5

\* A walk of N steps along a function
WalkAlong(f, N, S, g, i) ==
    f \in [0 .. N -> S] /\ f[0] = i /\ \A k \in 1 .. N : f[k] = g[f[k - 1]]

\* There is one, from anywhere.
LEMMA Iterates ==
    ASSUME NEW N \in Nat, NEW S, NEW g \in [S -> S], NEW i \in S
    PROVE  \E f : WalkAlong(f, N, S, g, i)
<1> DEFINE Along(f, m) == f[0] = i /\ \A k \in 1 .. m : f[k] = g[f[k - 1]]
           B == {m \in 0 .. N : \E f \in [0 .. m -> S] : Along(f, m)}
<1>1. 0 \in B
  <2>1. [k \in 0 .. 0 |-> i] \in [0 .. 0 -> S] /\ Along([k \in 0 .. 0 |-> i], 0)
    OBVIOUS
  <2>2. \E f \in [0 .. 0 -> S] : Along(f, 0)
    <3> HIDE DEF Along
    <3> QED
      BY <2>1
  <2> QED
    BY <2>2
<1>2. ASSUME NEW m \in 1 .. N, m - 1 \in B PROVE m \in B
  <2>1. PICK f \in [0 .. m - 1 -> S] : Along(f, m - 1)
    BY <1>2
  <2> DEFINE h == [k \in 0 .. m |-> IF k < m THEN f[k] ELSE g[f[m - 1]]]
  <2>2. m - 1 \in 0 .. m - 1 /\ f[m - 1] \in S
    OBVIOUS
  <2>3. h \in [0 .. m -> S]
    BY <2>2
  <2>4. h[0] = i
    BY <2>1
  <2>5. ASSUME NEW k \in 1 .. m PROVE h[k] = g[h[k - 1]]
    <3>1. k - 1 \in 0 .. m /\ k - 1 < m /\ h[k - 1] = f[k - 1] /\ k \in 0 .. m
      OBVIOUS
    <3>2. CASE k = m
      BY <3>1, <3>2
    <3>3. CASE k < m
      <4>1. k \in 1 .. m - 1 /\ h[k] = f[k]
        BY <3>3
      <4> QED
        BY <2>1, <3>1, <4>1
    <3> QED
      BY <3>2, <3>3
  <2>6. Along(h, m)
    <3> HIDE DEF h
    <3> QED
      BY <2>4, <2>5
  <2>7. \E f1 \in [0 .. m -> S] : Along(f1, m)
    <3> HIDE DEF h, Along
    <3> QED
      BY <2>3, <2>6
  <2> QED
    BY <2>7
<1> HIDE DEF B
<1>3. 0 .. N \subseteq B
  BY <1>1, <1>2, Induct
<1>4. N \in B
  BY <1>3
<1> QED
  BY <1>4 DEF B, WalkAlong

-----------------------------------------------------------------------------
(* The way of a call through bind mounts                                   *)

\* An inode_t as the file systems make it
IsInode(r) ==
    r = [name |-> r.name, parent |-> r.parent, ino |-> r.ino, sb |-> r.sb,
         ops |-> r.ops, born |-> r.born]

\* The tables: every inode but the root's went into the cache when it was made
\* and has a name and an older inode as its directory, and bind mounts lead to
\* inodes.
Tables ==
    /\ inode \in Seq(Range(inode))
    /\ Len(inode) \in Nat \ {0}
    /\ \A i \in 1 .. Len(inode) : IsInode(inode[i])
    /\ dcache = [k \in 1 .. Len(inode) - 1 |-> k + 1]
    /\ inode[1].parent = 0
    /\ \A i \in 2 .. Len(inode) : inode[i].name # "" /\ inode[i].parent \in 1 .. i - 1
    /\ \A i \in 1 .. Len(inode) :
          inode[i].ops = "bind" =>
             inode[i].sb \in DOMAIN sb /\ sb[inode[i].sb].dev \in 1 .. Len(inode)

\* The steps of a call that starts at inode i
Trail(f, i, n) ==
    /\ f \in [0 .. Len(inode) -> 1 .. Len(inode)]
    /\ f[0] = i
    /\ \A k \in 1 .. Len(inode) : f[k] = Hop(f[k - 1], n)

\* vfs_dcache_find gives the oldest inode with the directory and the name.
LEMMA FindFacts ==
    ASSUME Tables, NEW p, NEW n, NEW c, c = vfs_dcache_find(p, n)
    PROVE  /\ c = 0 => \A i \in 2 .. Len(inode) : ~(inode[i].parent = p /\ inode[i].name = n)
           /\ c # 0 => /\ c \in 2 .. Len(inode) /\ inode[c].parent = p /\ inode[c].name = n
                       /\ \A i \in 2 .. Len(inode) :
                             inode[i].parent = p /\ inode[i].name = n => c <= i
<1> DEFINE hits == {k \in DOMAIN dcache : /\ inode[dcache[k]].parent = p
                                         /\ inode[dcache[k]].name = n}
           first1 == CHOOSE k \in hits : \A j \in hits : k <= j
<1>1. /\ DOMAIN dcache = 1 .. Len(inode) - 1
      /\ \A k \in 1 .. Len(inode) - 1 : dcache[k] = k + 1
      /\ Len(inode) \in Nat
  BY DEF Tables
<1>2. ASSUME NEW i \in 2 .. Len(inode), inode[i].parent = p, inode[i].name = n
      PROVE  i - 1 \in hits
  <2>1. i - 1 \in 1 .. Len(inode) - 1 /\ (i - 1) + 1 = i
    BY <1>1
  <2>2. dcache[i - 1] = i
    BY <1>1, <2>1
  <2> QED
    BY <1>1, <1>2, <2>1, <2>2
<1>3. c = IF hits = {} THEN 0 ELSE dcache[first1]
  BY Zenon DEF vfs_dcache_find
<1>4. hits \in SUBSET (1 .. Len(inode) - 1)
  BY <1>1
<1>5. CASE hits = {}
  BY <1>2, <1>3, <1>5
<1>6. CASE hits # {}
  <2>1. \E k \in hits : \A j \in hits : k <= j
    <3>1. hits \in SUBSET Nat
      BY <1>1, <1>4
    <3> HIDE DEF hits
    <3> QED
      BY <1>6, <3>1, LeastExists
  <2>2. first1 \in hits /\ \A j \in hits : first1 <= j
    <3> HIDE DEF hits
    <3> QED
      BY <2>1
  <2> HIDE DEF first1
  <2>3. first1 \in 1 .. Len(inode) - 1 /\ dcache[first1] = first1 + 1 /\ c = first1 + 1
    BY <1>1, <1>3, <1>4, <1>6, <2>2
  <2>4. c \in 2 .. Len(inode) /\ c # 0
    BY <1>1, <2>3
  <2>5. inode[c].parent = p /\ inode[c].name = n
    BY <2>2, <2>3
  <2>6. ASSUME NEW i \in 2 .. Len(inode), inode[i].parent = p, inode[i].name = n PROVE c <= i
    <3>1. i - 1 \in hits
      BY <1>2, <2>6
    <3>2. first1 <= i - 1
      BY <2>2, <3>1
    <3> QED
      BY <1>1, <2>3, <3>2
  <2> QED
    BY <2>4, <2>5, <2>6
<1> QED
  BY <1>5, <1>6

\* The name that is nobody's is not in the cache.
LEMMA Nameless == ASSUME Tables, NEW j PROVE vfs_dcache_find(j, "") = 0
<1>1. PICK n, c : n = "" /\ c = vfs_dcache_find(j, n)
  BY Zenon
<1>2. c # 0 => c \in 2 .. Len(inode) /\ inode[c].name = n
  BY <1>1, FindFacts, Zenon
<1> QED
  BY <1>1, <1>2, Zenon DEF Tables

\* A call comes from an inode to an inode.
LEMMA HopIn == ASSUME Tables, NEW j \in 1 .. Len(inode), NEW n PROVE Hop(j, n) \in 1 .. Len(inode)
BY DEF Tables, Hop, Forwards

\* The recursion in Hops is a trail.
LEMMA HopsTrail ==
    ASSUME Tables, NEW i \in 1 .. Len(inode), NEW n
    PROVE  Trail(Hops(i, n), i, n)
<1> DEFINE N == Len(inode)
           g == [j \in 1 .. N |-> Hop(j, n)]
           Eq(f) == f = [k \in 0 .. N |-> IF k = 0 THEN i ELSE Hop(f[k - 1], n)]
<1>1. N \in Nat /\ g \in [1 .. N -> 1 .. N]
  BY HopIn DEF Tables
<1>2. PICK f : WalkAlong(f, N, 1 .. N, g, i)
  <2>1. i \in 1 .. N
    OBVIOUS
  <2> HIDE DEF g, N
  <2> QED
    BY <1>1, <2>1, Iterates, Zenon
<1>a. f \in [0 .. N -> 1 .. N] /\ f[0] = i /\ \A k \in 1 .. N : f[k] = g[f[k - 1]]
  <2> HIDE DEF g, N
  <2> QED
    BY <1>2 DEF WalkAlong
<1>3. ASSUME NEW k \in 1 .. N PROVE f[k] = Hop(f[k - 1], n) /\ f[k - 1] \in 1 .. N
  <2>1. k - 1 \in 0 .. N
    BY <1>1
  <2>2. f[k - 1] \in 1 .. N
    BY <1>a, <2>1
  <2> QED
    BY <1>a, <2>2
<1>4. Eq(f)
  <2> DEFINE h == [k \in 0 .. N |-> IF k = 0 THEN i ELSE Hop(f[k - 1], n)]
  <2>1. ASSUME NEW k \in 0 .. N PROVE f[k] = h[k]
    <3>1. CASE k = 0
      BY <1>a, <3>1
    <3>2. CASE k # 0
      <4>1. k \in 1 .. N
        BY <1>1, <3>2
      <4> QED
        BY <1>3, <3>2, <4>1
    <3> QED
      BY <3>1, <3>2
  <2>2. h = [k \in 0 .. N |-> h[k]] /\ f = [k \in 0 .. N |-> f[k]]
    BY <1>a, Zenon
  <2> HIDE DEF h
  <2>3. f = h
    BY <2>1, <2>2, Zenon
  <2> QED
    BY <2>3 DEF h
<1>5. Eq(Hops(i, n))
  <2>1. Hops(i, n) = CHOOSE f1 : Eq(f1)
    BY DEF Hops
  <2> HIDE DEF Eq
  <2> QED
    BY <1>4, <2>1, Zenon
<1> DEFINE h == Hops(i, n)
<1>6. /\ DOMAIN h = 0 .. N /\ h = [k \in 0 .. N |-> h[k]]
      /\ \A k \in 0 .. N : h[k] = IF k = 0 THEN i ELSE Hop(h[k - 1], n)
  <2> HIDE DEF h
  <2>1. Eq(h)
    BY <1>5 DEF h
  <2> QED
    BY <2>1
<1> HIDE DEF h
<1>7. \A k \in 0 .. N : h[k] = f[k]
  <2> DEFINE B == {k \in 0 .. N : h[k] = f[k]}
  <2>1. 0 \in B
    BY <1>1, <1>a, <1>6
  <2>2. ASSUME NEW k \in 1 .. N, k - 1 \in B PROVE k \in B
    <3>1. k \in 0 .. N /\ k # 0
      BY <1>1
    <3> QED
      BY <1>3, <1>6, <2>2, <3>1
  <2> HIDE DEF B
  <2>3. 0 .. N \subseteq B
    BY <1>1, <2>1, <2>2, Induct
  <2> QED
    BY <2>3 DEF B
<1>8. h = f
  BY <1>a, <1>6, <1>7, Zenon
<1> QED
  BY <1>a, <1>3, <1>8 DEF Trail, h

\* The ways of all calls, as formulas that can be used in the next state
AllTrails == \A i \in 1 .. Len(inode) : \A n : Trail(Hops(i, n), i, n)
AllNameless == \A j : vfs_dcache_find(j, "") = 0

\* The tables give them.
LEMMA Ways == Tables => AllTrails /\ AllNameless
BY HopsTrail, Nameless, Zenon DEF AllTrails, AllNameless

\* The number of inodes
LEMMA Count ==
    Tables => Len(inode) \in Nat /\ Len(inode) # 0 /\ DOMAIN inode = 1 .. Len(inode)
<1> SUFFICES ASSUME Tables
             PROVE  Len(inode) \in Nat /\ Len(inode) # 0 /\ DOMAIN inode = 1 .. Len(inode)
  BY Zenon
<1>1. inode \in Seq(Range(inode)) /\ Len(inode) \in Nat \ {0}
  BY Zenon DEF Tables
<1> QED
  BY <1>1

\* A call that is not passed on stays where it is.
LEMMA Stays ==
    ASSUME Tables, NEW f, NEW i, NEW n, Trail(f, i, n),
           NEW m \in 0 .. Len(inode), Hop(f[m], n) = f[m]
    PROVE  \A k \in m .. Len(inode) : f[k] = f[m]
<1>0. PICK N \in Nat : N = Len(inode)
  BY Count, Zenon
<1> DEFINE B == {k \in 0 .. N : k < m \/ f[k] = f[m]}
<1>1. m \in Nat /\ m \in 0 .. N
  BY <1>0
<1>2. 0 \in B
  BY <1>1
<1>3. ASSUME NEW k \in 1 .. N, k - 1 \in B PROVE k \in B
  <2>1. f[k] = Hop(f[k - 1], n)
    BY <1>0, Zenon DEF Trail
  <2>2. CASE f[k - 1] = f[m]
    BY <1>1, <2>1, <2>2
  <2>3. CASE k - 1 < m
    <3>1. k < m \/ k = m
      BY <1>1, <2>3
    <3> QED
      BY <1>1, <3>1
  <2> QED
    BY <1>3, <2>2, <2>3
<1>4. 0 .. N \subseteq B
  <2> HIDE DEF B
  <2> QED
    BY <1>1, <1>2, <1>3, Induct
<1>5. ASSUME NEW k \in m .. N PROVE f[k] = f[m]
  <2>1. k \in 0 .. N /\ ~(k < m)
    BY <1>1
  <2> QED
    BY <1>4, <2>1
<1> QED
  BY <1>0, <1>5

\* A call about n that starts at i ends at a bind mount whose cache has n
StopsShort(i, n) == inode[LastHop(i, n)].ops = "bind" /\ ~Forwards(LastHop(i, n), n)

\* The way of a call that is about a name is the way of one that is not, unless
\* it ends at a bind mount whose cache has the name.
LEMMA NamelessHops ==
    ASSUME Tables, NEW i \in 1 .. Len(inode), NEW n, ~StopsShort(i, n)
    PROVE  LastHop(i, "") = LastHop(i, n)
<1>1. PICK N \in Nat : N = Len(inode)
  BY Count, Zenon
<1>a. PICK f, g : f = Hops(i, n) /\ g = Hops(i, "")
  BY Zenon
<1> DEFINE B == {k \in 0 .. N : g[k] = f[k]}
<1>2. Trail(f, i, n) /\ Trail(g, i, "")
  BY <1>a, HopsTrail, Zenon
<1>3. inode[f[N]].ops = "bind" => Forwards(f[N], n)
  BY <1>1, <1>a, Zenon DEF LastHop, StopsShort
<1>4. 0 \in B
  <2>1. 0 \in 0 .. N
    OBVIOUS
  <2>2. g[0] = f[0]
    BY <1>2, Zenon DEF Trail
  <2> QED
    BY <2>1, <2>2, Zenon
<1>5. ASSUME NEW k \in 1 .. N, k - 1 \in B PROVE k \in B
  <2> DEFINE j == f[k - 1]
  <2>1. k - 1 \in 0 .. N /\ N \in (k - 1) .. N /\ k \in 0 .. N
    BY <1>1
  <2>2. g[k - 1] = j /\ f[k] = Hop(j, n) /\ g[k] = Hop(j, "")
    BY <1>1, <1>2, <1>5, Zenon DEF Trail
  <2> HIDE DEF j
  <2>3. CASE inode[j].ops # "bind"
    BY <2>1, <2>2, <2>3, Zenon DEF Hop, Forwards
  <2>4. CASE inode[j].ops = "bind"
    <3>1. Forwards(j, n)
      <4> SUFFICES ASSUME ~Forwards(j, n) PROVE FALSE
        BY Zenon
      <4>1. Hop(f[k - 1], n) = f[k - 1]
        BY Zenon DEF Hop, j
      <4>2. f[N] = j
        <5>1. k - 1 \in 0 .. Len(inode) /\ N \in (k - 1) .. Len(inode)
          BY <1>1, <2>1, Zenon
        <5>2. \A q \in (k - 1) .. Len(inode) : f[q] = f[k - 1]
          BY <1>2, <4>1, <5>1, Stays, Zenon
        <5> QED
          BY <5>1, <5>2, Zenon DEF j
      <4> QED
        BY <1>3, <2>4, <4>2, Zenon
    <3>2. Forwards(j, "")
      BY <2>4, Nameless, Zenon DEF Forwards
    <3> QED
      BY <2>1, <2>2, <3>1, <3>2, Zenon DEF Hop
  <2> QED
    BY <2>3, <2>4, Zenon
<1>6. 0 .. N \subseteq B
  <2> HIDE DEF B
  <2> QED
    BY <1>1, <1>4, <1>5, Induct
<1>7. N \in B
  BY <1>1, <1>6
<1> QED
  BY <1>1, <1>a, <1>7, Zenon DEF LastHop

\* At most one inode is made, and nothing else changes
Extends ==
    /\ Len(inode') \in {Len(inode), Len(inode) + 1}
    /\ \A j \in 1 .. Len(inode) : inode'[j] = inode[j]
    /\ sb' = sb

\* Calls that start at i end in a directory that is no bind mount
Ends(i) == inode[LastHop(i, "")].ops # "bind"

\* A new inode is on nobody's way.
LEMMA GrowHops ==
    ASSUME Tables, Tables', Extends, NEW i \in 1 .. Len(inode),
           Ends(i) \/ Len(inode') = Len(inode)
    PROVE  LastHop(i, "")' = LastHop(i, "")
<1>0. PICK N \in Nat : N = Len(inode)
  BY Count, Zenon
<1>a. PICK f, g : f = Hops(i, "") /\ g = Hops(i, "")'
  BY Zenon
<1> DEFINE B == {k \in 0 .. N : g[k] = f[k]}
<1>b. PICK M \in Nat : M = Len(inode') /\ M \in {N, N + 1}
  <2>1. N + 1 \in Nat
    OBVIOUS
  <2> QED
    BY <1>0, <2>1, Zenon DEF Extends
<1>1. /\ i \in 1 .. N /\ i \in 1 .. M
      /\ \A j \in 1 .. N : inode'[j] = inode[j]
  <2>1. i \in 1 .. N /\ \A j \in 1 .. N : inode'[j] = inode[j]
    BY <1>0, Zenon DEF Extends
  <2> QED
    BY <1>b, <2>1
<1>2. Trail(f, i, "")
  BY <1>a, HopsTrail, Zenon
<1>3. AllTrails' /\ AllNameless'
  BY Ways, PTL
<1>4. /\ g[0] = i
      /\ \A k \in 1 .. M : g[k] = Hop(g[k - 1], "")'
  <2>1. Trail(g, i, "")'
    BY <1>a, <1>b, <1>1, <1>3, Zenon DEF AllTrails
  <2> QED
    BY <1>b, <2>1, Zenon DEF Trail
<1>6. ASSUME NEW j \in 1 .. N PROVE Hop(j, "")' = Hop(j, "")
  <2>1. vfs_dcache_find(j, "") = 0 /\ vfs_dcache_find(j, "")' = 0
    BY <1>3, Nameless, Zenon DEF AllNameless
  <2> QED
    BY <1>1, <2>1, Zenon DEF Hop, Forwards, Extends
<1>7. f[0] = i /\ f \in [0 .. N -> 1 .. N] /\ \A k \in 1 .. N : f[k] = Hop(f[k - 1], "")
  BY <1>0, <1>2, Zenon DEF Trail
<1>8. inode[f[N]].ops # "bind" \/ M = N
  BY <1>0, <1>a, <1>b, Zenon DEF LastHop, Ends
<1>9. LastHop(i, "")' = g[M] /\ LastHop(i, "") = f[N]
  BY <1>0, <1>b, <1>a, Zenon DEF LastHop
<1>10. 0 \in B
  <2>1. 0 \in 0 .. N
    OBVIOUS
  <2> QED
    BY <1>4, <1>7, <2>1, Zenon
<1>11. ASSUME NEW k \in 1 .. N, k - 1 \in B PROVE k \in B
  <2>1. k - 1 \in 0 .. N /\ k \in 0 .. N /\ k \in 1 .. M
    BY <1>b
  <2>2. f[k - 1] \in 1 .. N
    BY <1>7, <2>1
  <2>3. g[k] = Hop(g[k - 1], "")' /\ g[k - 1] = f[k - 1]
    BY <1>4, <1>11, <2>1
  <2> QED
    BY <1>6, <1>7, <2>1, <2>2, <2>3
<1>12. N \in B
  <2>1. 0 .. N \subseteq B
    <3> HIDE DEF B
    <3> QED
      BY <1>1, <1>10, <1>11, Induct
  <2> QED
    BY <1>1, <2>1
<1>13. f[N] \in 1 .. N
  <2>1. N \in 0 .. N
    OBVIOUS
  <2> QED
    BY <1>7, <2>1, Zenon
<1>14. Hop(f[N], "") = f[N] \/ M = N
  BY <1>8, Zenon DEF Hop, Forwards
<1>15. M = N + 1 => g[N + 1] = Hop(g[N], "")'
  <2>1. N + 1 \in 1 .. N + 1 /\ (N + 1) - 1 = N
    OBVIOUS
  <2> QED
    BY <1>4, <2>1
<1>16. g[N] = f[N] /\ (Hop(f[N], "")' = f[N] \/ M = N)
  BY <1>6, <1>12, <1>13, <1>14
<1> QED
  BY <1>b, <1>9, <1>15, <1>16, Zenon

\* What the cache finds, in both states.
AllFound ==
    \A p, n :
       /\ vfs_dcache_find(p, n) = 0 <=>
            \A i \in 2 .. Len(inode) : ~(inode[i].parent = p /\ inode[i].name = n)
       /\ vfs_dcache_find(p, n) # 0 => vfs_dcache_find(p, n) \in 2 .. Len(inode)

\* It finds what there is.
LEMMA Found == Tables => AllFound
<1> SUFFICES ASSUME Tables, NEW p, NEW n
             PROVE  /\ vfs_dcache_find(p, n) = 0 <=>
                         \A i \in 2 .. Len(inode) :
                            ~(inode[i].parent = p /\ inode[i].name = n)
                    /\ vfs_dcache_find(p, n) # 0 => vfs_dcache_find(p, n) \in 2 .. Len(inode)
  BY Zenon DEF AllFound
<1>1. PICK c : c = vfs_dcache_find(p, n)
  BY Zenon
<1>2. c = 0 => \A i \in 2 .. Len(inode) : ~(inode[i].parent = p /\ inode[i].name = n)
  BY <1>1, FindFacts
<1>3. c # 0 => c \in 2 .. Len(inode) /\ inode[c].parent = p /\ inode[c].name = n
  BY <1>1, FindFacts
<1> QED
  BY <1>1, <1>2, <1>3, Zenon

\* A name that is not in the cache is not there after a step that makes nothing.
LEMMA StillMissing ==
    ASSUME Tables, Tables', UNCHANGED inode, NEW p, NEW n, vfs_dcache_find(p, n) = 0
    PROVE  vfs_dcache_find(p, n)' = 0
<1>1. AllFound /\ AllFound'
  BY Found, PTL
<1>2. \A i \in 2 .. Len(inode) : ~(inode[i].parent = p /\ inode[i].name = n)
  BY <1>1, Zenon DEF AllFound
<1>3. \A i \in 2 .. Len(inode') : ~(inode'[i].parent = p /\ inode'[i].name = n)
  BY <1>2, Zenon
<1> QED
  BY <1>1, <1>3, Zenon DEF AllFound

-----------------------------------------------------------------------------
(* The tables of inodes and superblocks                                    *)

\* inodes that are no links
NotLinks == {i \in 1 .. Len(inode) : inode[i].ops # "extlink"}

\* No two inodes have the same directory and name, unless that is hidden.
Unique ==
    \A i, j \in 2 .. Len(inode) :
       inode[i].parent = inode[j].parent /\ inode[i].name = inode[j].name
         => i = j \/ inode[i].parent \in hidden

\* Links are in directories of ext2, unless something was mounted on these.
LinksIn ==
    /\ inode[1].ops # "extlink"
    /\ \A i \in 2 .. Len(inode) : inode[i].parent \in NotLinks
    /\ \A i \in 2 .. Len(inode) :
          inode[i].ops = "extlink" =>
             inode[i].parent \in hidden \/ inode[inode[i].parent].ops = "extdir"

StoreInv == Tables /\ Unique /\ LinksIn

\* An inode is made
Grows(x) == inode' = Append(inode, x) /\ sb' = sb

\* What Append does to the table of inodes.
LEMMA Grown ==
    ASSUME Tables, NEW x, Grows(x), NEW N, N = Len(inode)
    PROVE  /\ N \in Nat \ {0}
           /\ inode' \in Seq(Range(inode'))
           /\ Len(inode') = N + 1
           /\ \A i \in 1 .. N : inode'[i] = inode[i]
           /\ inode'[N + 1] = x
           /\ sb' = sb
           /\ Extends
<1>1. inode \in Seq(Range(inode)) /\ N \in Nat \ {0}
  BY Count, Zenon DEF Tables
<1>2. inode' = Append(inode, x) /\ sb' = sb
  BY Zenon DEF Grows
<1>3. inode' \in Seq(Range(inode')) /\ Len(inode') = N + 1
  BY <1>1, <1>2, NewInode, Zenon
<1>4. (\A i \in 1 .. N : inode'[i] = inode[i]) /\ inode'[N + 1] = x
  BY <1>1, <1>2
<1>5. Extends
  BY <1>1, <1>2, <1>3, <1>4, Zenon DEF Extends
<1> QED
  BY <1>1, <1>2, <1>3, <1>4, <1>5, Zenon

\* What an inode must be like when it is made
Fits(x) ==
    /\ IsInode(x)
    /\ x.parent \in NotLinks
    /\ x.name # ""
    /\ x.ops # "bind"
    /\ x.ops = "extlink" => inode[x.parent].ops = "extdir"

\* An inode that is new to its directory, or goes to a hidden one, keeps the
\* tables as they should be.
LEMMA GrowStore ==
    ASSUME StoreInv, NEW x, Grows(x), Fits(x),
           dcache' = Append(dcache, Len(inode) + 1), hidden \subseteq hidden',
           vfs_dcache_find(x.parent, x.name) = 0 \/ x.parent \in hidden'
    PROVE  StoreInv' /\ NotLinks \subseteq NotLinks'
<1>1. PICK N : N = Len(inode)
  OBVIOUS
<1>2. /\ N \in Nat \ {0}
      /\ inode' \in Seq(Range(inode'))
      /\ Len(inode') = N + 1
      /\ \A i \in 1 .. N : inode'[i] = inode[i]
      /\ inode'[N + 1] = x
      /\ sb' = sb
  BY <1>1, Grown, Zenon DEF StoreInv
<1>3. \A i \in 1 .. N + 1 : i \in 1 .. N \/ i = N + 1
  BY <1>2
<1>4. \A i \in 2 .. N + 1 : i \in 2 .. N \/ i = N + 1
  BY <1>2
<1>5. \A i \in 2 .. N : i \in 1 .. N /\ i # N + 1
  BY <1>2
<1>6. 1 \in 1 .. N
  BY <1>2
<1>7. NotLinks \subseteq NotLinks'
  <2>1. \A i \in 1 .. N : i \in 1 .. N + 1
    BY <1>2
  <2> QED
    BY <1>1, <1>2, <2>1, Zenon DEF NotLinks
<1>8. \A i \in 1 .. N + 1 : inode'[i].parent \in NotLinks => inode'[inode'[i].parent] = inode[inode'[i].parent]
  BY <1>1, <1>2, Zenon DEF NotLinks
<1>9. Tables'
  <2>1. Len(inode') \in Nat \ {0}
    BY <1>2
  <2>2. \A i \in 1 .. N + 1 : IsInode(inode'[i])
    BY <1>1, <1>2, <1>3, Zenon DEF StoreInv, Tables, Fits
  <2>3. dcache' = [k \in 1 .. (N + 1) - 1 |-> k + 1]
    <3>1. dcache = [k \in 1 .. N - 1 |-> k + 1] /\ dcache' = Append(dcache, N + 1)
      BY <1>1, Zenon DEF StoreInv, Tables
    <3>2. N - 1 \in Nat /\ (N + 1) - 1 = N /\ (N - 1) + 1 = N
      BY <1>2
    <3>3. dcache \in Seq(Nat) /\ Len(dcache) = N - 1
      BY <3>1, <3>2
    <3>4. /\ dcache' \in Seq(Nat) /\ Len(dcache') = N
          /\ \A k \in 1 .. N - 1 : dcache'[k] = k + 1
          /\ dcache'[N] = N + 1
      BY <1>2, <3>1, <3>2, <3>3
    <3>5. \A k \in 1 .. N : dcache'[k] = k + 1
      <4>1. \A k \in 1 .. N : k \in 1 .. N - 1 \/ k = N
        BY <1>2
      <4> QED
        BY <3>4, <4>1, Zenon
    <3>6. DOMAIN dcache' = 1 .. N /\ dcache' = [k \in 1 .. N |-> dcache'[k]]
      BY <3>4
    <3>7. dcache' = [k \in 1 .. N |-> k + 1]
      BY <3>5, <3>6, Zenon
    <3> QED
      BY <3>2, <3>7, Zenon
  <2>4. inode'[1].parent = 0
    BY <1>2, <1>6, Zenon DEF StoreInv, Tables
  <2>5. \A i \in 2 .. N + 1 : inode'[i].name # "" /\ inode'[i].parent \in 1 .. i - 1
    <3>1. \A i \in 2 .. N : inode'[i].name # "" /\ inode'[i].parent \in 1 .. i - 1
      BY <1>1, <1>2, <1>5, Zenon DEF StoreInv, Tables
    <3>2. x.name # "" /\ x.parent \in 1 .. N
      BY <1>1, Zenon DEF Fits, NotLinks
    <3>3. (N + 1) - 1 = N
      BY <1>2
    <3> QED
      BY <1>2, <1>4, <3>1, <3>2, <3>3, Zenon
  <2>6. \A i \in 1 .. N + 1 :
           inode'[i].ops = "bind" =>
              inode'[i].sb \in DOMAIN sb' /\ sb'[inode'[i].sb].dev \in 1 .. N + 1
    <3>1. \A i \in 1 .. N : i \in 1 .. N + 1
      BY <1>2
    <3>2. \A i \in 1 .. N :
             inode[i].ops = "bind" =>
                inode[i].sb \in DOMAIN sb /\ sb[inode[i].sb].dev \in 1 .. N
      BY <1>1, Zenon DEF StoreInv, Tables
    <3>3. x.ops # "bind"
      BY Zenon DEF Fits
    <3> QED
      BY <1>2, <1>3, <3>1, <3>2, <3>3, Zenon
  <2> QED
    BY <1>2, <2>1, <2>2, <2>3, <2>4, <2>5, <2>6, Zenon DEF Tables
<1>10. Unique'
  <2>1. ASSUME NEW i \in 2 .. N, inode[i].parent = x.parent, inode[i].name = x.name
        PROVE  inode[i].parent \in hidden'
    <3>1. vfs_dcache_find(x.parent, x.name) = 0 =>
            ~(inode[i].parent = x.parent /\ inode[i].name = x.name)
      <4>1. PICK c : c = vfs_dcache_find(x.parent, x.name)
        BY Zenon
      <4>2. i \in 2 .. Len(inode) /\ Tables
        BY <1>1, Zenon DEF StoreInv
      <4>3. c = 0 => ~(inode[i].parent = x.parent /\ inode[i].name = x.name)
        BY <4>1, <4>2, FindFacts, Zenon
      <4> QED
        BY <4>1, <4>3, Zenon
    <3> QED
      BY <2>1, <3>1, Zenon
  <2>2. ASSUME NEW i \in 2 .. N + 1, NEW j \in 2 .. N + 1,
               inode'[i].parent = inode'[j].parent, inode'[i].name = inode'[j].name, i # j
        PROVE  inode'[i].parent \in hidden'
    <3>1. CASE i \in 2 .. N /\ j \in 2 .. N
      BY <1>1, <1>2, <1>5, <2>2, <3>1, Zenon DEF StoreInv, Unique
    <3>2. CASE i \in 2 .. N /\ j = N + 1
      BY <1>1, <1>2, <1>5, <2>1, <2>2, <3>2, Zenon
    <3>3. CASE j \in 2 .. N /\ i = N + 1
      BY <1>1, <1>2, <1>5, <2>1, <2>2, <3>3, Zenon
    <3> QED
      BY <1>4, <2>2, <3>1, <3>2, <3>3, Zenon
  <2> QED
    BY <1>2, <2>2, Zenon DEF Unique
<1>11. LinksIn'
  <2>1. inode'[1].ops # "extlink"
    BY <1>2, <1>6, Zenon DEF StoreInv, LinksIn
  <2>2. \A i \in 2 .. N + 1 : inode'[i].parent \in NotLinks
    BY <1>1, <1>2, <1>4, <1>5, Zenon DEF StoreInv, LinksIn, Fits
  <2>3. ASSUME NEW i \in 2 .. N + 1, inode'[i].ops = "extlink"
        PROVE  inode'[i].parent \in hidden' \/ inode'[inode'[i].parent].ops = "extdir"
    <3>1. inode'[inode'[i].parent] = inode[inode'[i].parent]
      BY <1>1, <1>2, <2>2, Zenon DEF NotLinks
    <3>2. CASE i \in 2 .. N
      BY <1>1, <1>2, <1>5, <2>3, <3>1, <3>2, Zenon DEF StoreInv, LinksIn
    <3>3. CASE i = N + 1
      BY <1>2, <2>3, <3>1, <3>3, Zenon DEF Fits
    <3> QED
      BY <1>4, <3>2, <3>3, Zenon
  <2> QED
    BY <1>2, <1>7, <2>1, <2>2, <2>3, Zenon DEF LinksIn
<1> QED
  BY <1>7, <1>9, <1>10, <1>11, Zenon DEF StoreInv

\* Inode d changes, and keeps its name and its directory
Changes(d) ==
    /\ inode' = [i \in DOMAIN inode |-> inode'[i]]
    /\ \A i \in DOMAIN inode : i # d => inode'[i] = inode[i]
    /\ IsInode(inode'[d])
    /\ inode'[d].name = inode[d].name
    /\ inode'[d].parent = inode[d].parent
    /\ inode'[d].ops # "extlink"

\* What is mounted somewhere stays there
SbGrows ==
    \A k \in DOMAIN sb : k \in DOMAIN sb' /\ sb'[k] = sb[k]

\* An inode that is mounted on, or becomes a device, keeps the tables as they
\* should be if it is then hidden or had nothing in it.
LEMMA ChangeStore ==
    ASSUME StoreInv, NEW d \in 1 .. Len(inode), Changes(d), SbGrows,
           dcache' = dcache, hidden \subseteq hidden',
           inode'[d].ops = "bind" =>
              inode'[d].sb \in DOMAIN sb' /\ sb'[inode'[d].sb].dev \in 1 .. Len(inode),
           \/ d \in hidden'
           \/ inode[d].ops # "extdir"
           \/ \A i \in 2 .. Len(inode) : inode[i].parent # d
    PROVE  StoreInv' /\ NotLinks \subseteq NotLinks' /\ Len(inode') = Len(inode)
<1>1. PICK N : N = Len(inode)
  OBVIOUS
<1>2. N \in Nat \ {0} /\ DOMAIN inode = 1 .. N
  BY <1>1, Count, Zenon DEF StoreInv
<1>3. inode' \in Seq(Range(inode')) /\ Len(inode') = N
  BY <1>1, ChangedInode, Zenon DEF StoreInv, Tables, Changes
<1>4. \A i \in 1 .. N : /\ IsInode(inode'[i])
                        /\ inode'[i].name = inode[i].name
                        /\ inode'[i].parent = inode[i].parent
                        /\ inode[i].ops # "extlink" => inode'[i].ops # "extlink"
                        /\ inode'[i].ops = "extlink" => inode[i].ops = "extlink"
  BY <1>1, <1>2, Zenon DEF Changes, StoreInv, Tables
<1>5. 1 \in 1 .. N /\ \A i \in 2 .. N : i \in 1 .. N
  BY <1>2
<1>6. NotLinks \subseteq NotLinks'
  BY <1>1, <1>3, <1>4, Zenon DEF NotLinks
<1>7. Tables'
  <2>1. Len(inode') \in Nat \ {0} /\ \A i \in 1 .. Len(inode') : IsInode(inode'[i])
    BY <1>2, <1>3, <1>4, Zenon
  <2>2. dcache' = [k \in 1 .. Len(inode') - 1 |-> k + 1]
    BY <1>1, <1>3, Zenon DEF StoreInv, Tables
  <2>3. /\ inode'[1].parent = 0
        /\ \A i \in 2 .. Len(inode') : inode'[i].name # "" /\ inode'[i].parent \in 1 .. i - 1
    BY <1>1, <1>3, <1>4, <1>5, Zenon DEF StoreInv, Tables
  <2>4. ASSUME NEW i \in 1 .. N, inode'[i].ops = "bind"
        PROVE  inode'[i].sb \in DOMAIN sb' /\ sb'[inode'[i].sb].dev \in 1 .. N
    <3>1. CASE i = d
      BY <1>1, <2>4, <3>1, Zenon
    <3>2. CASE i # d
      <4>1. inode'[i] = inode[i]
        BY <1>1, <1>2, <3>2, Zenon DEF Changes
      <4>2. inode[i].ops = "bind" => inode[i].sb \in DOMAIN sb /\ sb[inode[i].sb].dev \in 1 .. N
        BY <1>1, Zenon DEF StoreInv, Tables
      <4> QED
        BY <2>4, <4>1, <4>2, Zenon DEF SbGrows
    <3> QED
      BY <3>1, <3>2, Zenon
  <2> QED
    BY <1>3, <2>1, <2>2, <2>3, <2>4, Zenon DEF Tables
<1>8. Unique'
  BY <1>1, <1>3, <1>4, <1>5, Zenon DEF StoreInv, Unique
<1>9. LinksIn'
  <2>1. inode'[1].ops # "extlink" /\ \A i \in 2 .. N : inode'[i].parent \in NotLinks
    BY <1>1, <1>4, <1>5, Zenon DEF StoreInv, LinksIn
  <2>2. ASSUME NEW i \in 2 .. N, inode'[i].ops = "extlink"
        PROVE  inode'[i].parent \in hidden' \/ inode'[inode'[i].parent].ops = "extdir"
    <3>1. PICK p : p = inode[i].parent
      BY Zenon
    <3>2. inode'[i].parent = p /\ (p \in hidden' \/ inode[p].ops = "extdir") /\ p \in 1 .. N
      BY <1>1, <1>4, <1>5, <2>1, <2>2, <3>1, Zenon DEF StoreInv, LinksIn, NotLinks
    <3>3. CASE p = d
      BY <1>1, <3>1, <3>2, <3>3, Zenon
    <3>4. CASE p # d
      BY <1>2, <3>2, <3>4, Zenon DEF Changes
    <3> QED
      BY <3>3, <3>4, Zenon
  <2> QED
    BY <1>3, <1>6, <2>1, <2>2, Zenon DEF LinksIn
<1> QED
  BY <1>1, <1>3, <1>6, <1>7, <1>8, <1>9, Zenon DEF StoreInv

-----------------------------------------------------------------------------
(* A lookup                                                                *)

IsLook(l) ==
    l = [at |-> l.at, rest |-> l.rest, dir |-> l.dir, name |-> l.name,
         link |-> l.link, clean |-> l.clean]

\* The task's inodes are no links.
Refs ==
    /\ root \in NotLinks
    /\ cwd \in NotLinks
    /\ first \in NotLinks \cup {0}
    /\ \A f \in 0 .. NFD - 1 : fd[f] \in NotLinks \cup {0}

\* The name of a missing file is new to the directory it would be made in.
Fresh ==
    look.at = 0 /\ look.dir # 0 /\ ~look.link /\ look.name \notin {".", ".."}
      => vfs_dcache_find(LastHop(look.dir, ""), look.name) = 0

\* It is an inode, and the name is one.
DirNamed == look.dir # 0 => look.dir \in 1 .. Len(inode) /\ look.name # ""

\* That of a link is one of ext2, where no file is made.
ExtDir(i) == inode[LastHop(i, "")].ops = "extdir"
LinkDir == look.link /\ look.clean => look.dir \in 1 .. Len(inode) /\ ExtDir(look.dir)

WalkInv ==
    pc = "walk" => /\ look.at \in NotLinks
                   /\ ~look.link => look.dir = 0
                   /\ DirNamed
                   /\ LinkDir

FoundInv ==
    pc = "found" => /\ look.at \in NotLinks \cup {0}
                    /\ Fresh
                    /\ DirNamed
                    /\ LinkDir

\* device_mkdev changes the file it has made.
OpenedInv ==
    pc = "opened" => /\ fd[file] # 0
                     /\ req.op = "mkdev" => inode[fd[file]].ops = "tmpfile"

CallInv ==
    Running => /\ IsLook(look)
               /\ WalkInv
               /\ FoundInv
               /\ OpenedInv
               /\ req.op = "mkdev" => req.creat /\ req.mode = "file"

BootInv == boot \in 1 .. 8

NameInv == StoreInv /\ Refs /\ CallInv /\ BootInv

\* The boot has seven calls.
LEMMA BootLength == Booted <=> boot > 7
BY DEF Booted, BootCalls

\* What a call ends with.
LEMMA EndNames ==
    ASSUME NEW n1, n1 = NotLinks', NoCall, Refs, NotLinks \subseteq n1,
           root' \in n1, cwd' \in n1,
           \A f \in 0 .. NFD - 1 : fd'[f] \in n1 \cup {0}
    PROVE  Refs' /\ CallInv'
<1>1. Refs'
  BY Zenon DEF Refs, NoCall
<1>2. pc' = "idle" /\ look' = NoLook /\ req'.op = "open"
  BY DEF NoCall, open, Request
<1>3. IsLook(NoLook)
  BY DEF IsLook, NoLook
<1>4. IsLook(look')
  BY <1>2, <1>3, Zenon
<1>5. WalkInv' /\ FoundInv' /\ OpenedInv'
  BY <1>2, Zenon DEF WalkInv, FoundInv, OpenedInv
<1>6. req'.op # "mkdev"
  BY <1>2
<1> QED
  BY <1>1, <1>4, <1>5, <1>6, Zenon DEF CallInv

\* Calls of the boot end, or stop it.
LEMMA EndBoot ==
    ASSUME BootInv, boot' = boot \/ boot' = IF Booted THEN boot ELSE boot + 1
    PROVE  BootInv'
<1>1. boot \in 1 .. 8 /\ (Booted <=> boot > 7)
  BY BootLength, Zenon DEF BootInv
<1>2. boot' \in 1 .. 8
  BY <1>1
<1> QED
  BY <1>2, Zenon DEF BootInv

\* Fields of a path_lookup
Fields(l, a, r, d, n, k, c) ==
    /\ IsLook(l)
    /\ l.at = a
    /\ l.rest = r
    /\ l.dir = d
    /\ l.name = n
    /\ l.link = k
    /\ l.clean = c

\* A record that has them.
LEMMA MakeLook ==
    ASSUME NEW l, NEW a, NEW r, NEW d, NEW n, NEW k, NEW c,
           l = [at |-> a, rest |-> r, dir |-> d, name |-> n, link |-> k, clean |-> c]
    PROVE  Fields(l, a, r, d, n, k, c)
BY DEF Fields, IsLook

\* A write to one of them.
LEMMA WriteLook ==
    ASSUME NEW l, NEW a, NEW r, NEW d, NEW n, NEW k, NEW c, Fields(l, a, r, d, n, k, c), NEW v
    PROVE  /\ Fields([l EXCEPT !.at = v], v, r, d, n, k, c)
           /\ Fields([l EXCEPT !.rest = v], a, v, d, n, k, c)
           /\ Fields([l EXCEPT !.dir = v], a, r, v, n, k, c)
           /\ Fields([l EXCEPT !.name = v], a, r, d, v, k, c)
           /\ Fields([l EXCEPT !.link = v], a, r, d, n, v, c)
           /\ Fields([l EXCEPT !.clean = v], a, r, d, n, k, v)
<1>1. l = [at |-> a, rest |-> r, dir |-> d, name |-> n, link |-> k, clean |-> c]
  BY Zenon DEF Fields, IsLook
<1>2. Fields([l EXCEPT !.at = v], v, r, d, n, k, c)
  <2>1. [l EXCEPT !.at = v] = [at |-> v, rest |-> r, dir |-> d, name |-> n, link |-> k, clean |-> c]
    BY <1>1
  <2> QED
    BY <2>1, MakeLook, Zenon
<1>3. Fields([l EXCEPT !.rest = v], a, v, d, n, k, c)
  <2>1. [l EXCEPT !.rest = v] = [at |-> a, rest |-> v, dir |-> d, name |-> n, link |-> k, clean |-> c]
    BY <1>1
  <2> QED
    BY <2>1, MakeLook, Zenon
<1>4. Fields([l EXCEPT !.dir = v], a, r, v, n, k, c)
  <2>1. [l EXCEPT !.dir = v] = [at |-> a, rest |-> r, dir |-> v, name |-> n, link |-> k, clean |-> c]
    BY <1>1
  <2> QED
    BY <2>1, MakeLook, Zenon
<1>5. Fields([l EXCEPT !.name = v], a, r, d, v, k, c)
  <2>1. [l EXCEPT !.name = v] = [at |-> a, rest |-> r, dir |-> d, name |-> v, link |-> k, clean |-> c]
    BY <1>1
  <2> QED
    BY <2>1, MakeLook, Zenon
<1>6. Fields([l EXCEPT !.link = v], a, r, d, n, v, c)
  <2>1. [l EXCEPT !.link = v] = [at |-> a, rest |-> r, dir |-> d, name |-> n, link |-> v, clean |-> c]
    BY <1>1
  <2> QED
    BY <2>1, MakeLook, Zenon
<1>7. Fields([l EXCEPT !.clean = v], a, r, d, n, k, v)
  <2>1. [l EXCEPT !.clean = v] = [at |-> a, rest |-> r, dir |-> d, name |-> n, link |-> k, clean |-> v]
    BY <1>1
  <2> QED
    BY <2>1, MakeLook, Zenon
<1> QED
  BY <1>2, <1>3, <1>4, <1>5, <1>6, <1>7, Zenon

\* A lookup starts at the root or where the task is.
LEMMA LookupStarts ==
    ASSUME NEW p
    PROVE  /\ IsLook(Lookup(p))
           /\ Lookup(p).at \in {root, cwd}
           /\ Lookup(p).dir = 0
           /\ Lookup(p).link = FALSE
<1>1. PICK a, f, t : a = (IF p.abs THEN root ELSE cwd) /\ f = FALSE /\ t = TRUE
  BY Zenon
<1>2. NoLook = [at |-> 0, rest |-> << >>, dir |-> 0, name |-> "", link |-> f, clean |-> t]
  BY <1>1, Zenon DEF NoLook
<1>3. Fields(NoLook, 0, << >>, 0, "", f, t)
  BY <1>2, MakeLook, Zenon
<1>4. PICK l : l = [NoLook EXCEPT !.at = a]
  BY Zenon
<1>5. Fields(l, a, << >>, 0, "", f, t)
  BY <1>3, <1>4, WriteLook, Zenon
<1>6. Fields([l EXCEPT !.rest = p.names], a, p.names, 0, "", f, t)
  BY <1>5, WriteLook, Zenon
<1>7. Lookup(p) = [l EXCEPT !.rest = p.names]
  BY <1>1, <1>4, Zenon DEF Lookup
<1> QED
  BY <1>1, <1>6, <1>7, Zenon DEF Fields

\* A lookup that starts.
LEMMA StartWalk ==
    ASSUME StoreInv, Refs, NEW p, look' = Lookup(p), UNCHANGED <<inode, root, cwd>>
    PROVE  IsLook(look') /\ WalkInv'
<1>1. /\ IsLook(look')
      /\ look'.at \in {root, cwd}
      /\ look'.dir = 0
      /\ look'.link = FALSE
  BY LookupStarts, Zenon
<1>2. look'.at \in NotLinks'
  BY <1>1, Zenon DEF Refs, NotLinks
<1>3. DirNamed' /\ LinkDir'
  BY <1>1, Zenon DEF DirNamed, LinkDir
<1> QED
  BY <1>1, <1>2, <1>3, Zenon DEF WalkInv

\* A stop of the kernel leaves the tables and the task's inodes as they are.
LEMMA StopNames ==
    ASSUME NameInv, ~Running', UNCHANGED <<inode, sb, dcache, hidden, root, cwd, first, boot>>,
           fd' = fd \/ fd' = Closed(file), FdInv
    PROVE  NameInv'
<1>1. StoreInv' /\ BootInv' /\ CallInv'
  BY Zenon DEF NameInv, StoreInv, Tables, Unique, LinksIn, NotLinks, BootInv, CallInv
<1>2. NotLinks' = NotLinks
  BY Zenon DEF NotLinks
<1>3. \A f \in 0 .. NFD - 1 : fd'[f] \in NotLinks \cup {0}
  BY Zenon DEF NameInv, Refs, Closed, FdInv
<1>4. Refs'
  BY <1>2, <1>3, Zenon DEF NameInv, Refs
<1> QED
  BY <1>1, <1>4, Zenon DEF NameInv

\* A call begins.
LEMMA BeginNames ==
    ASSUME NameInv, NEW r, Begin(r), r.op = "mkdev" => r.creat /\ r.mode = "file"
    PROVE  NameInv'
<1>1. /\ UNCHANGED <<inode, sb, dcache, hidden, root, cwd, first, boot, fd>>
      /\ pc' = "walk" /\ req' = r /\ look' = Lookup(r.path)
  BY Zenon DEF Begin, store, task
<1>2. StoreInv' /\ BootInv' /\ Refs'
  BY <1>1, Zenon DEF NameInv, StoreInv, Tables, Unique, LinksIn, NotLinks, BootInv, Refs
<1>3. IsLook(look') /\ WalkInv'
  BY <1>1, StartWalk, Zenon DEF NameInv
<1>4. FoundInv' /\ OpenedInv'
  BY <1>1, Zenon DEF FoundInv, OpenedInv
<1>5. CallInv'
  BY <1>1, <1>3, <1>4, Zenon DEF CallInv
<1> QED
  BY <1>2, <1>5, Zenon DEF NameInv

\* The calls of the boot, one by one: only one of them is device_mkdev's.
LEMMA BootRequests ==
    ASSUME NEW b \in 1 .. 7, BootCalls[b].op = "mkdev"
    PROVE  BootCalls[b].creat /\ BootCalls[b].mode = "file"
<1>1. b = 1 \/ b = 2 \/ b = 3 \/ b = 4 \/ b = 5 \/ b = 6 \/ b = 7
  OBVIOUS
<1>2. /\ BootCalls[1].op = "mount"
      /\ BootCalls[2].op = "mkdir"
      /\ BootCalls[3].creat /\ BootCalls[3].mode = "file"
      /\ BootCalls[4].op = "mkdir"
      /\ BootCalls[5].op = "mount"
      /\ BootCalls[6].op = "mount"
      /\ BootCalls[7].op = "chroot"
  BY DEF BootCalls, mount, mkdir, mkdev, chroot, Request
<1> QED
  BY <1>1, <1>2

\* where vfs_finddir ends up
Place == LastHop(look.at, Component)

\* What vfs_finddir can give: nothing, an inode that ext2 makes for an entry
\* that is not in the cache, or one there is, which is in the cache. tmpfs never
\* finds what the cache has not.
MissCase ==
    /\ Hit = 0 /\ ~HitNew /\ ~HitUncached
    /\ Searches => vfs_dcache_find(Place, Component) = 0

NewCase ==
    /\ Hit = Len(inode) + 1 /\ HitNew /\ HitUncached /\ Searches
    /\ inode[Place].ops = "extdir"
    /\ vfs_dcache_find(Place, Component) = 0

OldCase ==
    /\ Hit \in 1 .. Len(inode) /\ ~HitNew /\ ~HitUncached
    /\ HitInode = inode[Hit]
    /\ Searches => Hit \in 2 .. Len(inode) /\ inode[Hit].parent = Place
    /\ ~Searches => Hit \in NotLinks

\* A call ends at an inode that is on its way.
LEMMA LastIn ==
    ASSUME Tables, NEW i \in 1 .. Len(inode), NEW n
    PROVE  LastHop(i, n) \in 1 .. Len(inode) /\ LastHop(i, n) \in Range(Hops(i, n))
<1>1. Trail(Hops(i, n), i, n)
  BY HopsTrail, Zenon
<1>2. Hops(i, n) \in [0 .. Len(inode) -> 1 .. Len(inode)]
  BY <1>1, Zenon DEF Trail
<1>3. PICK N \in Nat : N = Len(inode)
  BY Count, Zenon
<1>4. N \in 0 .. N
  OBVIOUS
<1>5. Len(inode) \in DOMAIN Hops(i, n)
  BY <1>2, <1>3, <1>4, Zenon
<1> QED
  BY <1>2, <1>5, Zenon DEF LastHop, Range

\* The cases are all there are.
LEMMA HitCases ==
    ASSUME StoreInv, look.at \in NotLinks
    PROVE  MissCase \/ NewCase \/ OldCase
<1>1. PICK N, i, n, d, c : /\ N = Len(inode) /\ i = look.at /\ n = Component /\ d = Place
                           /\ c = vfs_dcache_find(d, n)
  BY Zenon
<1>2. N \in Nat \ {0} /\ i \in 1 .. N
  BY <1>1, Count, Zenon DEF StoreInv, NotLinks
<1>3. d \in 1 .. N
  BY <1>1, <1>2, LastIn, Zenon DEF StoreInv, Place
<1>4. /\ c = 0 => \A k \in 2 .. N : ~(inode[k].parent = d /\ inode[k].name = n)
      /\ c # 0 => c \in 2 .. N /\ inode[c].parent = d
  BY <1>1, FindFacts, Zenon DEF StoreInv
<1>5. CASE n = "."
  <2>1. Hit = i /\ ~Searches
    BY <1>1, <1>5, Zenon DEF Hit, vfs_finddir, Searches
  <2>2. ~HitNew
    BY <1>1, <1>2, <2>1 DEF HitNew
  <2> QED
    BY <1>1, <1>2, <2>1, <2>2, Zenon DEF OldCase, HitUncached, HitInode
<1>6. CASE n = ".."
  <2>1. n # "."
    BY <1>6
  <2>2. Hit = inode[i].parent /\ ~Searches
    BY <1>1, <1>6, <2>1, Zenon DEF Hit, vfs_finddir, Searches
  <2>3. CASE i = 1
    <3>1. Hit = 0
      BY <1>1, <2>2, <2>3, Zenon DEF StoreInv, Tables
    <3>2. ~HitNew
      BY <1>1, <1>2, <3>1 DEF HitNew
    <3> QED
      BY <2>2, <3>1, <3>2, Zenon DEF MissCase, HitUncached
  <2>4. CASE i # 1
    <3>1. i \in 2 .. N
      BY <1>2, <2>4
    <3>2. Hit \in NotLinks
      BY <1>1, <2>2, <3>1, Zenon DEF StoreInv, LinksIn
    <3>3. Hit \in 1 .. N
      BY <1>1, <3>2, Zenon DEF NotLinks
    <3>4. ~HitNew
      BY <1>1, <1>2, <3>3 DEF HitNew
    <3> QED
      BY <1>1, <2>2, <3>2, <3>3, <3>4, Zenon DEF OldCase, HitUncached, HitInode
  <2> QED
    BY <2>3, <2>4, Zenon
<1>7. CASE n # "." /\ n # ".."
  <2>1. Searches
    BY <1>1, <1>7, Zenon DEF Searches
  <2>2. CASE c # 0
    <3>1. Hit = c
      BY <1>1, <1>7, <2>2, Zenon DEF Hit, vfs_finddir, Place
    <3>2. c \in 1 .. N /\ ~(c > N)
      BY <1>2, <1>4, <2>2
    <3>3. ~HitNew
      BY <1>1, <3>1, <3>2, Zenon DEF HitNew
    <3> QED
      BY <1>1, <1>4, <2>1, <2>2, <3>1, <3>2, <3>3, Zenon DEF OldCase, HitUncached, HitInode, Place
  <2>3. CASE c = 0
    <3>1. tmpfs_finddir(d, n) = {}
      <4>1. ASSUME NEW k \in DOMAIN inode, inode[k].parent = d, inode[k].name = n PROVE FALSE
        <5>1. k \in 1 .. N
          BY <1>1, Count, Zenon DEF StoreInv
        <5>2. k = 1 \/ k \in 2 .. N
          BY <1>2, <5>1
        <5>3. CASE k = 1
          <6>1. inode[k].parent = 0
            BY <5>3, Zenon DEF StoreInv, Tables
          <6>2. d # 0
            BY <1>2, <1>3
          <6> QED
            BY <4>1, <6>1, <6>2, Zenon
        <5> QED
          BY <1>4, <2>3, <4>1, <5>2, <5>3, Zenon
      <4> QED
        BY <4>1, Zenon DEF tmpfs_finddir
    <3>2. \/ Hit = 0
          \/ inode[d].ops = "extdir" /\ Hit = Len(inode) + 1
      BY <1>1, <1>7, <2>3, <3>1, Zenon DEF Hit, vfs_finddir, Place
    <3>3. CASE Hit = 0
      <4>1. ~HitNew
        BY <1>1, <1>2, <3>3 DEF HitNew
      <4> QED
        BY <1>1, <2>3, <3>3, <4>1, Zenon DEF MissCase, HitUncached
    <3>4. CASE inode[d].ops = "extdir" /\ Hit = Len(inode) + 1
      <4>1. HitNew /\ Hit # 0
        BY <1>1, <1>2, <3>4 DEF HitNew
      <4> QED
        BY <1>1, <2>1, <2>3, <3>4, <4>1, Zenon DEF NewCase, HitUncached, Place
    <3> QED
      BY <3>2, <3>3, <3>4, Zenon
  <2> QED
    BY <2>2, <2>3, Zenon
<1> QED
  BY <1>5, <1>6, <1>7, Zenon

\* The inode that ext2 makes.
LEMMA Ext2Inode ==
    ASSUME StoreInv, look.at \in NotLinks, NewCase, Component # ""
    PROVE  /\ Fits(HitInode)
           /\ HitInode.parent = Place
           /\ HitInode.name = Component
<1>1. PICK d, n, k : d = Place /\ n = Component /\ k = Entries[inode[d].ino][n]
  BY Zenon
<1>2. HitInode = [name |-> n, parent |-> d, ino |-> k, sb |-> inode[d].sb,
                  ops |-> ext2_ops(k), born |-> <<inode[d].sb, k>>]
  BY <1>1, Zenon DEF NewCase, HitInode, ext2_finddir, Place
<1>3. PICK s, o, b : s = inode[d].sb /\ o = ext2_ops(k) /\ b = <<inode[d].sb, k>>
  BY Zenon
<1>4. HitInode = [name |-> n, parent |-> d, ino |-> k, sb |-> s, ops |-> o, born |-> b]
  BY <1>2, <1>3, Zenon
<1>5. HitInode.parent = d /\ HitInode.name = n /\ HitInode.ops = o
  BY <1>4
<1>6. IsInode(HitInode)
  BY <1>4 DEF IsInode
<1>7. o \in {"extdir", "extlink", "extfile"}
  BY <1>3, Zenon DEF ext2_ops
<1>8. o # "bind"
  BY <1>7
<1>9. d \in NotLinks /\ inode[d].ops = "extdir"
  <2>1. d \in 1 .. Len(inode)
    BY <1>1, LastIn, Zenon DEF StoreInv, NotLinks, Place
  <2>2. inode[d].ops = "extdir"
    BY <1>1, Zenon DEF NewCase
  <2>3. "extdir" # "extlink"
    OBVIOUS
  <2> QED
    BY <2>1, <2>2, <2>3, Zenon DEF NotLinks
<1> QED
  BY <1>1, <1>5, <1>6, <1>8, <1>9, Zenon DEF Fits

\* A step of path_find keeps the tables.
LEMMA WalkStore ==
    ASSUME StoreInv, look.at \in NotLinks, Walk
    PROVE  /\ StoreInv'
           /\ NotLinks \subseteq NotLinks'
           /\ sb' = sb
           /\ \/ ~NewCase /\ UNCHANGED <<inode, dcache, hidden>>
              \/ NewCase /\ Grows(HitInode)
<1>1. /\ inode' = IF HitNew THEN Append(inode, HitInode) ELSE inode
      /\ dcache' = IF HitUncached THEN Append(dcache, Hit) ELSE dcache
      /\ UNCHANGED <<sb, hidden>>
      /\ Component # ""
  BY Zenon DEF Walk, vfs_dcache_add
<1>2. CASE NewCase
  <2>1. Grows(HitInode) /\ dcache' = Append(dcache, Len(inode) + 1) /\ hidden \subseteq hidden'
    BY <1>1, <1>2, Zenon DEF NewCase, Grows
  <2>2. /\ Fits(HitInode)
        /\ vfs_dcache_find(HitInode.parent, HitInode.name) = 0
    BY <1>1, <1>2, Ext2Inode, Zenon DEF NewCase
  <2>3. StoreInv' /\ NotLinks \subseteq NotLinks'
    BY <2>1, <2>2, GrowStore, Zenon
  <2> QED
    BY <1>1, <1>2, <2>1, <2>3, Zenon
<1>3. CASE ~NewCase
  <2>1. UNCHANGED <<inode, dcache, sb, hidden>>
    BY <1>1, <1>3, HitCases, Zenon DEF MissCase, OldCase
  <2>2. StoreInv' /\ NotLinks \subseteq NotLinks'
    BY <2>1, Zenon DEF StoreInv, Tables, Unique, LinksIn, NotLinks
  <2> QED
    BY <1>3, <2>1, <2>2, Zenon
<1> QED
  BY <1>2, <1>3, Zenon

\* A directory of ext2 that a call ends in is where it ends after a step of
\* path_find.
LEMMA KeepExtDir ==
    ASSUME StoreInv, look.at \in NotLinks, Walk, NEW e \in 1 .. Len(inode), ExtDir(e)
    PROVE  e \in 1 .. Len(inode') /\ ExtDir(e)'
<1>1. PICK N \in Nat : N = Len(inode)
  BY Count, Zenon DEF StoreInv
<1>2. StoreInv' /\ sb' = sb
  BY WalkStore, Zenon
<1>3. Extends
  <2>1. UNCHANGED inode => Extends
    BY <1>2, Zenon DEF Extends
  <2> QED
    BY <2>1, WalkStore, Grown, Zenon DEF StoreInv
<1>4. Ends(e)
  <2>1. "extdir" # "bind"
    OBVIOUS
  <2> QED
    BY <2>1, Zenon DEF Ends, ExtDir
<1>5. PICK d : d = LastHop(e, "")
  BY Zenon
<1>6. LastHop(e, "")' = d
  BY <1>2, <1>3, <1>4, <1>5, GrowHops, Zenon DEF StoreInv
<1>7. d \in 1 .. Len(inode)
  BY <1>5, LastIn, Zenon DEF StoreInv
<1>8. inode'[d] = inode[d]
  BY <1>3, <1>7, Zenon DEF Extends
<1>9. PICK M : M = Len(inode') /\ (M = N \/ M = N + 1)
  BY <1>1, <1>3, Zenon DEF Extends
<1>10. e \in 1 .. M
  BY <1>1, <1>9
<1> QED
  BY <1>5, <1>6, <1>8, <1>9, <1>10, Zenon DEF ExtDir

\* What path_find notes of the directory of a missing file.
LEMMA Remembers ==
    ASSUME IsLook(look), NEW x, x = look.at
    PROVE  Fields(Remember(look), x, look.rest,
                  IF AtLast /\ ~look.link THEN x ELSE look.dir,
                  IF AtLast /\ ~look.link THEN Component ELSE look.name,
                  look.link, Cleanly)
<1>1. PICK d, n, c : /\ d = (IF AtLast /\ ~look.link THEN look.at ELSE look.dir)
                     /\ n = (IF AtLast /\ ~look.link THEN Component ELSE look.name)
                     /\ c = Cleanly
  BY Zenon
<1>2. Fields(look, x, look.rest, look.dir, look.name, look.link, look.clean)
  BY Zenon DEF Fields
<1>3. PICK s : s = [look EXCEPT !.dir = d]
  BY Zenon
<1>4. PICK t : t = [s EXCEPT !.name = n]
  BY Zenon
<1>5. Fields(s, x, look.rest, d, look.name, look.link, look.clean)
  BY <1>2, <1>3, WriteLook, Zenon
<1>6. Fields(t, x, look.rest, d, n, look.link, look.clean)
  BY <1>4, <1>5, WriteLook, Zenon
<1>7. Fields([t EXCEPT !.clean = c], x, look.rest, d, n, look.link, c)
  BY <1>6, WriteLook, Zenon
<1>8. Remember(look) = [look EXCEPT !.dir = d, !.name = n, !.clean = c]
  BY <1>1, Zenon DEF Remember
<1>9. Remember(look) = [t EXCEPT !.clean = c]
  BY <1>3, <1>4, <1>8, Zenon
<1> QED
  BY <1>1, <1>7, <1>9, Zenon

\* The state of the lookup after a step
Goes(a, l) ==
    /\ IsLook(look')
    /\ look'.at = a
    /\ look'.dir = IF AtLast /\ ~look.link THEN look.at ELSE look.dir
    /\ look'.name = IF AtLast /\ ~look.link THEN Component ELSE look.name
    /\ look'.link = l
    /\ look'.clean = Cleanly

\* What a lookup has noted stays right.
LEMMA NotedStays ==
    ASSUME StoreInv, look.at \in NotLinks, DirNamed, LinkDir, Walk, NEW a, NEW l, Goes(a, l),
           l => look.link \/ (AtLast /\ Hit # 0 /\ HitInode.ops = "extlink" /\ ~Hangs)
    PROVE  DirNamed' /\ LinkDir'
<1>1. StoreInv' /\ NotLinks \subseteq NotLinks' /\ sb' = sb
  BY WalkStore, Zenon
<1>2. PICK N \in Nat : N = Len(inode)
  BY Count, Zenon DEF StoreInv
<1>3. PICK M : M = Len(inode') /\ (M = N \/ M = N + 1)
  BY <1>2, WalkStore, Grown, Zenon DEF StoreInv
<1>4. \A e \in 1 .. N : e \in 1 .. M
  BY <1>3
<1>5. look.at \in 1 .. N
  BY <1>2, Zenon DEF NotLinks
<1>6. Component # ""
  BY Zenon DEF Walk
<1>7. DirNamed'
  <2>1. CASE AtLast /\ ~look.link
    BY <1>3, <1>4, <1>5, <1>6, <2>1, Zenon DEF Goes, DirNamed
  <2>2. CASE ~(AtLast /\ ~look.link)
    BY <1>2, <1>3, <1>4, <2>2, Zenon DEF Goes, DirNamed
  <2> QED
    BY <2>1, <2>2, Zenon
<1>8. ASSUME look'.link, look'.clean
      PROVE  \E e : look'.dir = e /\ e \in 1 .. M /\ ExtDir(e)'
  <2>1. l /\ Cleanly
    BY <1>8, Zenon DEF Goes
  <2>2. CASE look.link
    <3>1. PICK e : e = look.dir
      BY Zenon
    <3>2. look'.dir = e
      BY <2>2, <3>1, Zenon DEF Goes
    <3>3. e \in 1 .. N /\ ExtDir(e)
      BY <1>2, <2>1, <2>2, <3>1, Zenon DEF LinkDir, Cleanly
    <3>4. ExtDir(e)'
      BY <1>2, <3>3, KeepExtDir, Zenon
    <3> QED
      BY <1>4, <3>2, <3>3, <3>4, Zenon
  <2>3. CASE ~look.link
    <3>1. AtLast /\ Hit # 0 /\ HitInode.ops = "extlink" /\ ~Hangs
      BY <2>1, <2>3, Zenon
    <3>2. PICK e, d, n : e = look.at /\ d = Place /\ n = Component
      BY Zenon
    <3>3. look'.dir = e
      BY <2>3, <3>1, <3>2, Zenon DEF Goes
    <3>4. Searches /\ inode[d].ops = "extdir"
      <4>1. CASE NewCase
        BY <3>2, <4>1, Zenon DEF NewCase
      <4>2. CASE OldCase
        <5>1. inode[Hit].ops = "extlink"
          BY <3>1, <4>2, Zenon DEF OldCase
        <5>2. Searches /\ Hit \in 2 .. N /\ inode[Hit].parent = d
          BY <1>2, <3>2, <4>2, <5>1, Zenon DEF OldCase, NotLinks
        <5>3. d \notin hidden
          <6>1. d \in Range(Hops(look.at, Component))
            BY <1>2, <1>5, <3>2, LastIn, Zenon DEF StoreInv, Place
          <6> QED
            BY <2>1, <5>2, <6>1, Zenon DEF Cleanly
        <5> QED
          BY <1>2, <5>1, <5>2, <5>3, Zenon DEF StoreInv, LinksIn
      <4> QED
        BY <3>1, <4>1, <4>2, HitCases, Zenon DEF MissCase
    <3>5. LastHop(e, "") = d
      <4>1. inode[d].ops # "bind"
        BY <3>4
      <4>2. ~StopsShort(e, n)
        BY <3>2, <4>1, Zenon DEF StopsShort, Place
      <4> QED
        BY <1>2, <1>5, <3>2, <4>2, NamelessHops, Zenon DEF StoreInv, Place
    <3>6. ExtDir(e)
      BY <3>4, <3>5, Zenon DEF ExtDir
    <3>7. ExtDir(e)'
      BY <1>2, <1>5, <3>2, <3>6, KeepExtDir, Zenon
    <3> QED
      BY <1>4, <1>5, <3>2, <3>3, <3>7, Zenon
  <2> QED
    BY <2>2, <2>3, Zenon
<1> QED
  BY <1>3, <1>7, <1>8, Zenon DEF LinkDir, ExtDir

\* What the steps of path_find start from.
LEMMA WalkStart ==
    ASSUME NameInv, Walk
    PROVE  /\ StoreInv /\ look.at \in NotLinks /\ DirNamed /\ LinkDir /\ IsLook(look)
           /\ ~look.link => look.dir = 0
           /\ ~Hangs /\ pc = "walk" /\ Component # ""
           /\ StoreInv' /\ NotLinks \subseteq NotLinks' /\ sb' = sb
           /\ Refs' /\ BootInv'
           /\ req'.op = "mkdev" => req'.creat /\ req'.mode = "file"
<1>1. Running /\ pc = "walk" /\ Component # "" /\ ~Hangs
  BY Zenon DEF Walk
<1>2. UNCHANGED <<fd, root, cwd, first, req, boot>>
  BY Zenon DEF Walk, task
<1>3. /\ StoreInv /\ look.at \in NotLinks /\ DirNamed /\ LinkDir /\ IsLook(look)
      /\ ~look.link => look.dir = 0
      /\ req.op = "mkdev" => req.creat /\ req.mode = "file"
  BY <1>1, Zenon DEF NameInv, CallInv, WalkInv
<1>4. StoreInv' /\ NotLinks \subseteq NotLinks' /\ sb' = sb
  BY <1>3, WalkStore, Zenon
<1>5. Refs' /\ BootInv'
  BY <1>2, <1>4, Zenon DEF NameInv, Refs, BootInv
<1> QED
  BY <1>1, <1>2, <1>3, <1>4, <1>5, Zenon

\* A component that is missing.
LEMMA MissingNames ==
    ASSUME NameInv, WalkMissing
    PROVE  NameInv'
<1>1. Walk /\ Hit = 0 /\ pc' = "found" /\ look' = [Remember(look) EXCEPT !.at = 0]
  BY Zenon DEF WalkMissing
<1>2. /\ StoreInv /\ look.at \in NotLinks /\ DirNamed /\ LinkDir /\ IsLook(look)
      /\ ~look.link => look.dir = 0
      /\ ~Hangs /\ pc = "walk" /\ Component # ""
      /\ StoreInv' /\ NotLinks \subseteq NotLinks' /\ sb' = sb
      /\ Refs' /\ BootInv'
      /\ req'.op = "mkdev" => req'.creat /\ req'.mode = "file"
  BY <1>1, WalkStart, Zenon
<1>3. Goes(0, look.link)
  <2>1. Fields(look', 0, look.rest,
               IF AtLast /\ ~look.link THEN look.at ELSE look.dir,
               IF AtLast /\ ~look.link THEN Component ELSE look.name,
               look.link, Cleanly)
    BY <1>1, <1>2, Remembers, WriteLook, Zenon
  <2> QED
    BY <2>1, Zenon DEF Fields, Goes
<1>4. DirNamed' /\ LinkDir'
  BY <1>1, <1>2, <1>3, NotedStays, Zenon
<1>5. MissCase
  <2>1. PICK N \in Nat : N = Len(inode)
    BY <1>2, Count, Zenon DEF StoreInv
  <2>2. ~OldCase
    <3>1. 0 \notin 1 .. N
      OBVIOUS
    <3> QED
      BY <1>1, <2>1, <3>1, Zenon DEF OldCase
  <2>3. ~NewCase
    BY <1>1, Zenon DEF NewCase, HitUncached
  <2> QED
    BY <1>2, <2>2, <2>3, HitCases, Zenon
<1>6. UNCHANGED inode
  BY <1>1, <1>5, Zenon DEF Walk, MissCase
<1>7. Fresh'
  <2> SUFFICES ASSUME look'.at = 0, look'.dir # 0, ~look'.link, look'.name \notin {".", ".."}
               PROVE  vfs_dcache_find(LastHop(look.dir, ""), look.name)' = 0
    BY Zenon DEF Fresh
  <2>1. ~look.link
    BY <1>3, Zenon DEF Goes
  <2>2. AtLast
    BY <1>2, <1>3, <2>1, Zenon DEF Goes
  <2>3. PICK e, n, d : e = look.at /\ n = Component /\ d = Place
    BY Zenon
  <2>4. look'.dir = e /\ look'.name = n
    BY <1>3, <2>1, <2>2, <2>3, Zenon DEF Goes
  <2>5. Searches
    BY <2>3, <2>4, Zenon DEF Searches
  <2>6. vfs_dcache_find(d, n) = 0
    BY <1>5, <2>3, <2>5, Zenon DEF MissCase
  <2>7. inode[d].ops # "bind"
    BY <1>2, <2>3, <2>5, <2>6, Zenon DEF Hangs, Loops, Forwards, Place
  <2>8. e \in 1 .. Len(inode) /\ ~StopsShort(e, n)
    BY <1>2, <2>3, <2>7, Zenon DEF StopsShort, Place, NotLinks
  <2>9. LastHop(e, "") = d
    BY <1>2, <2>3, <2>8, NamelessHops, Zenon DEF StoreInv, Place
  <2>10. LastHop(e, "")' = d
    <3>1. Extends
      BY <1>2, <1>6, Zenon DEF Extends
    <3>2. Ends(e)
      BY <2>7, <2>9, Zenon DEF Ends
    <3> QED
      BY <1>2, <2>8, <2>9, <3>1, <3>2, GrowHops, Zenon DEF StoreInv
  <2>11. vfs_dcache_find(d, n)' = 0
    BY <1>2, <1>6, <2>6, StillMissing, Zenon DEF StoreInv
  <2> QED
    BY <2>4, <2>10, <2>11, Zenon
<1>8. look'.at = 0 /\ IsLook(look')
  BY <1>3, Zenon DEF Goes
<1>9. FoundInv' /\ WalkInv' /\ OpenedInv'
  BY <1>1, <1>4, <1>7, <1>8, Zenon DEF FoundInv, WalkInv, OpenedInv
<1> QED
  BY <1>2, <1>8, <1>9, Zenon DEF NameInv, CallInv

\* A link on the way.
LEMMA LinkNames ==
    ASSUME NameInv, WalkLink
    PROVE  NameInv'
<1>1. /\ Walk /\ Hit # 0 /\ HitInode.ops = "extlink" /\ pc' = pc
      /\ look' = [Remember(look) EXCEPT
                     !.at = FollowFrom(HitInode),
                     !.rest = Target[HitInode.ino].names \o Tail(@),
                     !.link = @ \/ AtLast]
  BY Zenon DEF WalkLink
<1>2. /\ StoreInv /\ look.at \in NotLinks /\ DirNamed /\ LinkDir /\ IsLook(look)
      /\ ~look.link => look.dir = 0
      /\ ~Hangs /\ pc = "walk" /\ Component # ""
      /\ StoreInv' /\ NotLinks \subseteq NotLinks' /\ sb' = sb
      /\ Refs' /\ BootInv'
      /\ req'.op = "mkdev" => req'.creat /\ req'.mode = "file"
  BY <1>1, WalkStart, Zenon
<1>3. PICK a, l, r : /\ a = FollowFrom(HitInode)
                     /\ l = (look.link \/ AtLast)
                     /\ r = Target[HitInode.ino].names \o Tail(look.rest)
  BY Zenon
<1>4. Goes(a, l)
  <2>1. PICK d, n, c : /\ d = (IF AtLast /\ ~look.link THEN look.at ELSE look.dir)
                       /\ n = (IF AtLast /\ ~look.link THEN Component ELSE look.name)
                       /\ c = Cleanly
    BY Zenon
  <2>2. PICK m : m = Remember(look)
    BY Zenon
  <2>3. Fields(m, look.at, look.rest, d, n, look.link, c)
    BY <1>2, <2>1, <2>2, Remembers, Zenon
  <2>4. PICK s : s = [m EXCEPT !.at = a]
    BY Zenon
  <2>5. PICK t : t = [s EXCEPT !.rest = r]
    BY Zenon
  <2>6. Fields(s, a, look.rest, d, n, look.link, c)
    BY <2>3, <2>4, WriteLook, Zenon
  <2>7. Fields(t, a, r, d, n, look.link, c)
    BY <2>5, <2>6, WriteLook, Zenon
  <2>8. Fields([t EXCEPT !.link = l], a, r, d, n, l, c)
    BY <2>7, WriteLook, Zenon
  <2>9. m.rest = look.rest /\ m.link = look.link
    BY <2>3, Zenon DEF Fields
  <2>10. look' = [m EXCEPT !.at = a, !.rest = r, !.link = l]
    BY <1>1, <1>3, <2>2, <2>9, Zenon
  <2>11. look' = [t EXCEPT !.link = l]
    BY <2>4, <2>5, <2>10, Zenon
  <2> QED
    BY <2>1, <2>8, <2>11, Zenon DEF Fields, Goes
<1>5. DirNamed' /\ LinkDir'
  BY <1>1, <1>2, <1>3, <1>4, NotedStays, Zenon
<1>6. a \in NotLinks
  <2>1. HitInode.parent \in NotLinks
    <3>1. CASE NewCase
      BY <1>2, <3>1, Ext2Inode, Zenon DEF Fits
    <3>2. CASE OldCase
      BY <1>1, <1>2, <3>2, Zenon DEF OldCase, NotLinks, StoreInv, LinksIn
    <3> QED
      BY <1>1, <1>2, <3>1, <3>2, HitCases, Zenon DEF MissCase
  <2> QED
    BY <1>3, <2>1, Zenon DEF FollowFrom, NameInv, Refs
<1>7. look'.at \in NotLinks' /\ (~look'.link => look'.dir = 0) /\ IsLook(look')
  BY <1>2, <1>3, <1>4, <1>6, Zenon DEF Goes
<1>8. FoundInv' /\ WalkInv' /\ OpenedInv'
  BY <1>1, <1>2, <1>5, <1>7, Zenon DEF FoundInv, WalkInv, OpenedInv
<1> QED
  BY <1>2, <1>7, <1>8, Zenon DEF NameInv, CallInv

\* A component that is there.
LEMMA OnNames ==
    ASSUME NameInv, WalkOn
    PROVE  NameInv'
<1>1. /\ Walk /\ Hit # 0 /\ HitInode.ops # "extlink"
      /\ pc' = (IF AtLast THEN "found" ELSE "walk")
      /\ look' = [Remember(look) EXCEPT !.at = Hit, !.rest = Tail(@)]
  BY Zenon DEF WalkOn
<1>2. /\ StoreInv /\ look.at \in NotLinks /\ DirNamed /\ LinkDir /\ IsLook(look)
      /\ ~look.link => look.dir = 0
      /\ ~Hangs /\ pc = "walk" /\ Component # ""
      /\ StoreInv' /\ NotLinks \subseteq NotLinks' /\ sb' = sb
      /\ Refs' /\ BootInv'
      /\ req'.op = "mkdev" => req'.creat /\ req'.mode = "file"
  BY <1>1, WalkStart, Zenon
<1>3. PICK r : r = Tail(look.rest)
  BY Zenon
<1>4. Goes(Hit, look.link)
  <2>1. PICK d, n, c : /\ d = (IF AtLast /\ ~look.link THEN look.at ELSE look.dir)
                       /\ n = (IF AtLast /\ ~look.link THEN Component ELSE look.name)
                       /\ c = Cleanly
    BY Zenon
  <2>2. PICK m : m = Remember(look)
    BY Zenon
  <2>3. Fields(m, look.at, look.rest, d, n, look.link, c)
    BY <1>2, <2>1, <2>2, Remembers, Zenon
  <2>4. PICK s : s = [m EXCEPT !.at = Hit]
    BY Zenon
  <2>5. Fields(s, Hit, look.rest, d, n, look.link, c)
    BY <2>3, <2>4, WriteLook, Zenon
  <2>6. Fields([s EXCEPT !.rest = r], Hit, r, d, n, look.link, c)
    BY <2>5, WriteLook, Zenon
  <2>7. m.rest = look.rest
    BY <2>3, Zenon DEF Fields
  <2>8. look' = [m EXCEPT !.at = Hit, !.rest = r]
    BY <1>1, <1>3, <2>2, <2>7, Zenon
  <2>9. look' = [s EXCEPT !.rest = r]
    BY <2>4, <2>8, Zenon
  <2> QED
    BY <2>1, <2>6, <2>9, Zenon DEF Fields, Goes
<1>5. DirNamed' /\ LinkDir'
  BY <1>1, <1>2, <1>4, NotedStays, Zenon
<1>6. Hit \in NotLinks'
  <2>1. CASE NewCase
    <3>1. PICK N \in Nat : N = Len(inode)
      BY <1>2, Count, Zenon DEF StoreInv
    <3>2. Grows(HitInode)
      BY <1>1, <1>2, <2>1, WalkStore, Zenon
    <3>3. Len(inode') = N + 1 /\ inode'[N + 1] = HitInode
      BY <1>2, <3>1, <3>2, Grown, Zenon DEF StoreInv
    <3>4. N + 1 \in 1 .. N + 1
      OBVIOUS
    <3> QED
      BY <1>1, <2>1, <3>1, <3>3, <3>4, Zenon DEF NewCase, NotLinks
  <2>2. CASE OldCase
    BY <1>1, <1>2, <2>2, Zenon DEF OldCase, NotLinks
  <2> QED
    BY <1>1, <1>2, <2>1, <2>2, HitCases, Zenon DEF MissCase
<1>7. look'.at = Hit /\ IsLook(look') /\ look'.link = look.link
  BY <1>4, Zenon DEF Goes
<1>8. ~AtLast /\ ~look'.link => look'.dir = 0
  BY <1>2, <1>4, Zenon DEF Goes
<1>9. Fresh'
  BY <1>1, <1>7, Zenon DEF Fresh
<1>10. FoundInv' /\ WalkInv' /\ OpenedInv'
  <2>1. CASE AtLast
    BY <1>1, <1>5, <1>6, <1>7, <1>9, <2>1, Zenon DEF FoundInv, WalkInv, OpenedInv
  <2>2. CASE ~AtLast
    BY <1>1, <1>5, <1>6, <1>7, <1>8, <2>2, Zenon DEF FoundInv, WalkInv, OpenedInv
  <2> QED
    BY <2>1, <2>2, Zenon
<1> QED
  BY <1>2, <1>7, <1>10, Zenon DEF NameInv, CallInv

\* An empty component, at the end of the path.
LEMMA EmptyNames ==
    ASSUME NameInv, FdInv, WalkEmpty
    PROVE  NameInv'
<1>1. Running /\ pc = "walk" /\ UNCHANGED <<inode, sb, dcache, hidden, root, cwd, fd>>
  BY Zenon DEF WalkEmpty, store, task
<1>2. CASE kpanic("empty")
  <2>1. ~Running' /\ UNCHANGED <<first, boot>>
    BY <1>2 DEF kpanic, flow, Running
  <2> QED
    BY <1>1, <2>1, StopNames, Zenon
<1>3. CASE pc' = "found" /\ UNCHANGED <<req, look, first, file, boot, panic>>
  <2>1. StoreInv' /\ Refs' /\ BootInv'
    BY <1>1, <1>3, Zenon DEF NameInv, StoreInv, Tables, Unique, LinksIn, NotLinks, Refs, BootInv
  <2>2. /\ look.at \in NotLinks /\ DirNamed /\ LinkDir /\ IsLook(look)
        /\ req.op = "mkdev" => req.creat /\ req.mode = "file"
    BY <1>1, Zenon DEF NameInv, CallInv, WalkInv
  <2>3. look.at # 0
    <3>1. look.at \in 1 .. Len(inode) /\ Len(inode) \in Nat
      BY <2>2, Count, Zenon DEF NotLinks, NameInv, StoreInv
    <3> QED
      BY <3>1
  <2>4. look'.at \in NotLinks' /\ DirNamed' /\ Fresh'
    BY <1>1, <1>3, <2>2, <2>3, Zenon DEF NotLinks, DirNamed, Fresh
  <2>5. LinkDir'
    <3>1. PICK e : e = look.dir
      BY Zenon
    <3>2. ASSUME e \in 1 .. Len(inode), ExtDir(e) PROVE ExtDir(e)'
      <4>1. Extends
        BY <1>1, Zenon DEF Extends
      <4>2. "extdir" # "bind"
        OBVIOUS
      <4>3. Ends(e)
        BY <3>2, <4>2, Zenon DEF Ends, ExtDir
      <4>4. LastHop(e, "")' = LastHop(e, "")
        BY <2>1, <3>2, <4>1, <4>3, GrowHops, Zenon DEF NameInv, StoreInv
      <4> QED
        BY <1>1, <3>2, <4>4, Zenon DEF ExtDir
    <3> QED
      BY <1>1, <1>3, <2>2, <3>1, <3>2, Zenon DEF LinkDir, ExtDir
  <2>6. FoundInv' /\ WalkInv' /\ OpenedInv'
    BY <1>3, <2>4, <2>5, Zenon DEF FoundInv, WalkInv, OpenedInv
  <2> QED
    BY <1>3, <2>1, <2>2, <2>6, Zenon DEF NameInv, CallInv
<1> QED
  BY <1>2, <1>3, Zenon DEF WalkEmpty

-----------------------------------------------------------------------------
(* sys_open, and what calls do with the descriptor                         *)

\* What an error leaves behind.
LEMMA FailNames ==
    ASSUME NEW n1, n1 = NotLinks', Fail, Refs, BootInv, NotLinks \subseteq n1,
           UNCHANGED <<root, cwd, fd>>
    PROVE  Refs' /\ CallInv' /\ BootInv'
<1>1. NoCall /\ boot' = boot
  BY Zenon DEF Fail
<1>2. /\ root' \in n1 /\ cwd' \in n1
      /\ \A f \in 0 .. NFD - 1 : fd'[f] \in n1 \cup {0}
  BY Zenon DEF Refs
<1>3. Refs' /\ CallInv'
  BY <1>1, <1>2, EndNames, Zenon
<1>4. BootInv'
  BY <1>1, EndBoot, Zenon
<1> QED
  BY <1>3, <1>4, Zenon

\* sys_open puts an inode into the table.
LEMMA InstallNames ==
    ASSUME NEW n1, n1 = NotLinks', NEW r, Install(r), FdInv, Refs, BootInv,
           NotLinks \subseteq n1, r \in n1, r # 0, UNCHANGED <<root, cwd>>, IsLook(look),
           req.op = "mkdev" => req.creat /\ req.mode = "file" /\ inode'[r].ops = "tmpfile"
    PROVE  Refs' /\ CallInv' /\ BootInv'
<1>1. CASE Free = {}
  <2>1. Fail /\ UNCHANGED fd
    BY <1>1, Zenon DEF Install
  <2> QED
    BY <2>1, FailNames, Zenon
<1>2. CASE Free # {}
  <2>1. PICK g : g = LowestFree
    BY Zenon
  <2>2. g \in 0 .. NFD - 1
    BY <1>2, <2>1, LowestIsFree, Zenon DEF FdInv
  <2>3. /\ fd' = [fd EXCEPT ![g] = r] /\ file' = g /\ pc' = "opened"
        /\ UNCHANGED <<req, look, first, boot, panic>>
    BY <1>2, <2>1, Zenon DEF Install
  <2>4. fd'[g] = r /\ \A f \in 0 .. NFD - 1 : fd'[f] = r \/ fd'[f] = fd[f]
    BY <2>2, <2>3, Zenon DEF FdInv
  <2>5. Refs'
    BY <2>3, <2>4, Zenon DEF Refs
  <2>6. WalkInv' /\ FoundInv'
    BY <2>3, Zenon DEF WalkInv, FoundInv
  <2>7. OpenedInv'
    BY <2>3, <2>4, Zenon DEF OpenedInv
  <2>8. BootInv'
    BY <2>3, Zenon DEF BootInv
  <2> QED
    BY <2>3, <2>5, <2>6, <2>7, <2>8, Zenon DEF CallInv
<1> QED
  BY <1>1, <1>2, Zenon

\* The tables do not change.
LEMMA SameStore ==
    ASSUME StoreInv, UNCHANGED <<inode, sb, dcache, hidden>>
    PROVE  StoreInv' /\ NotLinks' = NotLinks
BY Zenon DEF StoreInv, Tables, Unique, LinksIn, NotLinks

\* sys_open of what is there.
LEMMA ExistingNames ==
    ASSUME NameInv, FdInv, OpenExisting
    PROVE  NameInv'
<1>1. /\ Running /\ pc = "found" /\ look.at # 0
      /\ UNCHANGED <<inode, sb, dcache, hidden, root, cwd>>
  BY Zenon DEF OpenExisting, AtFound, store
<1>2. /\ StoreInv /\ Refs /\ BootInv /\ IsLook(look) /\ look.at \in NotLinks \cup {0}
      /\ req.op = "mkdev" => req.creat
  BY <1>1, Zenon DEF NameInv, CallInv, FoundInv
<1>3. StoreInv' /\ NotLinks' = NotLinks
  BY <1>1, <1>2, SameStore, Zenon
<1>4. CASE Fail /\ UNCHANGED fd
  BY <1>1, <1>2, <1>3, <1>4, FailNames, Zenon DEF NameInv
<1>5. CASE kpanic("deadlock") /\ UNCHANGED fd
  <2>1. ~Running' /\ UNCHANGED <<first, boot>>
    BY <1>5 DEF kpanic, flow, Running
  <2> QED
    BY <1>1, <1>5, <2>1, StopNames, Zenon
<1>6. CASE ~Exclusive /\ Install(look.at)
  <2>1. req.op # "mkdev"
    <3>1. "mkdev" # "open"
      OBVIOUS
    <3> QED
      BY <1>2, <1>6, <3>1, Zenon DEF Exclusive
  <2>2. Refs' /\ CallInv' /\ BootInv'
    BY <1>1, <1>2, <1>3, <1>6, <2>1, InstallNames, Zenon
  <2> QED
    BY <1>3, <2>2, Zenon DEF NameInv
<1> QED
  BY <1>4, <1>5, <1>6, Zenon DEF OpenExisting

\* sys_open of what is not there.
LEMMA NotThereNames ==
    ASSUME NameInv, FdInv, OpenMissing
    PROVE  NameInv'
<1>1. /\ Fail \/ kpanic("hang")
      /\ UNCHANGED <<inode, sb, dcache, hidden, root, cwd, fd>>
  BY Zenon DEF OpenMissing, store, task
<1>2. CASE Fail
  <2>1. StoreInv' /\ NotLinks' = NotLinks
    BY <1>1, SameStore, Zenon DEF NameInv
  <2>2. Refs' /\ CallInv' /\ BootInv'
    BY <1>1, <1>2, <2>1, FailNames, Zenon DEF NameInv
  <2> QED
    BY <2>1, <2>2, Zenon DEF NameInv
<1>3. CASE kpanic("hang")
  <2>1. ~Running' /\ UNCHANGED <<first, boot>>
    BY <1>3 DEF kpanic, flow, Running
  <2> QED
    BY <1>1, <2>1, StopNames, Zenon
<1> QED
  BY <1>1, <1>2, <1>3, Zenon

\* The inode of a new file.
LEMMA TmpfsInode ==
    ASSUME NEW d, NEW x, x = tmpfs_creat(d)
    PROVE  /\ IsInode(x)
           /\ x.name = look.name
           /\ x.parent = d
           /\ x.ops \in {"tmpdir", "tmpfile"}
           /\ req.mode = "file" => x.ops = "tmpfile"
BY DEF tmpfs_creat, IsInode

\* sys_open makes a file.
LEMMA CreateNames ==
    ASSUME NameInv, FdInv, CacheInv, OpenCreates
    PROVE  NameInv'
<1>1. /\ Running /\ pc = "found" /\ look.at = 0 /\ MayCreate
      /\ UNCHANGED <<sb, root, cwd>>
  BY Zenon DEF OpenCreates, AtFound
<1>2. /\ StoreInv /\ Refs /\ BootInv /\ IsLook(look) /\ Fresh /\ DirNamed /\ LinkDir
      /\ req.op = "mkdev" => req.creat /\ req.mode = "file"
  BY <1>1, Zenon DEF NameInv, CallInv, FoundInv
<1>3. PICK d, x : d = LastHop(look.dir, "") /\ x = tmpfs_creat(d)
  BY Zenon
<1>4. /\ inode[d].ops = "tmpdir" /\ inode' = Append(inode, x)
      /\ hidden' = IF look.link /\ ~look.clean THEN hidden \cup {d} ELSE hidden
  BY <1>3, Zenon DEF OpenCreates, Creates
<1>5. PICK N \in Nat : N = Len(inode)
  BY <1>2, Count, Zenon DEF StoreInv
<1>6. Grows(x)
  BY <1>1, <1>4, Zenon DEF Grows
<1>7. /\ Len(inode') = N + 1 /\ inode'[N + 1] = x
  BY <1>2, <1>5, <1>6, Grown, Zenon DEF StoreInv
<1>8. dcache' = Append(dcache, N + 1) /\ Install(N + 1)
  <2>1. Range(dcache) \subseteq 1 .. N
    BY <1>5, Zenon DEF CacheInv
  <2>2. N + 1 \notin 1 .. N
    OBVIOUS
  <2>3. ~AddFails(N + 1, look.dir, "")
    BY <2>1, <2>2, OneAdder, Zenon DEF AddFails
  <2> QED
    BY <1>7, <2>3, Zenon DEF OpenCreates, vfs_dcache_add
<1>9. look.dir \in 1 .. Len(inode) /\ look.name # ""
  BY <1>1, <1>2, Zenon DEF MayCreate, DirNamed
<1>10. d \in NotLinks
  <2>1. d \in 1 .. Len(inode)
    BY <1>2, <1>3, <1>9, LastIn, Zenon DEF StoreInv
  <2>2. "tmpdir" # "extlink"
    OBVIOUS
  <2> QED
    BY <1>4, <2>1, <2>2, Zenon DEF NotLinks
<1>11. /\ IsInode(x) /\ x.name = look.name /\ x.parent = d
       /\ x.ops \in {"tmpdir", "tmpfile"}
       /\ req.mode = "file" => x.ops = "tmpfile"
  BY <1>3, TmpfsInode, Zenon
<1>12. x.ops # "bind" /\ x.ops # "extlink"
  BY <1>11
<1>13. Fits(x)
  BY <1>9, <1>10, <1>11, <1>12, Zenon DEF Fits
<1>14. vfs_dcache_find(d, look.name) = 0 \/ d \in hidden'
  <2>1. CASE ~look.link
    BY <1>1, <1>2, <1>3, <2>1, Zenon DEF Fresh, MayCreate
  <2>2. CASE look.link /\ look.clean
    <3>1. inode[d].ops = "extdir"
      BY <1>2, <1>3, <2>2, Zenon DEF LinkDir, ExtDir
    <3>2. "extdir" # "tmpdir"
      OBVIOUS
    <3> QED
      BY <1>4, <3>1, <3>2, Zenon
  <2>3. CASE look.link /\ ~look.clean
    BY <1>4, <2>3, Zenon
  <2> QED
    BY <2>1, <2>2, <2>3, Zenon
<1>15. StoreInv' /\ NotLinks \subseteq NotLinks'
  <2>1. hidden \subseteq hidden'
    BY <1>4, Zenon
  <2> QED
    BY <1>2, <1>5, <1>6, <1>8, <1>11, <1>13, <1>14, <2>1, GrowStore, Zenon
<1>16. N + 1 \in NotLinks' /\ N + 1 # 0
  <2>1. N + 1 \in 1 .. N + 1 /\ N + 1 # 0
    OBVIOUS
  <2> QED
    BY <1>7, <1>12, <2>1, Zenon DEF NotLinks
<1>17. Refs' /\ CallInv' /\ BootInv'
  BY <1>1, <1>2, <1>7, <1>8, <1>11, <1>15, <1>16, InstallNames, Zenon
<1> QED
  BY <1>15, <1>17, Zenon DEF NameInv

\* The list of superblocks only grows.
SbInv == sb \in Seq(Range(sb))

\* Every step keeps it a list.
LEMMA SbStep == SbInv /\ [Next]_vars => SbInv'
<1> SUFFICES ASSUME SbInv, [Next]_vars PROVE SbInv'
  BY Zenon
<1>1. ASSUME NEW dev, NEW dir, vfs_mount(dev, dir)
      PROVE  sb' = sb \/ \E x : sb' = Append(sb, x)
  BY <1>1, Zenon DEF vfs_mount, store
<1>2. sb' = sb \/ \E x : sb' = Append(sb, x)
  <2>1. CASE Mount
    BY <1>1, <2>1, Zenon DEF Mount, store
  <2>2. CASE BootCall \/ ProgramCall \/ WalkEmpty \/ WalkStops \/ WalkMissing \/ WalkLink \/ WalkOn
    BY <2>2, Zenon DEF BootCall, ProgramCall, Begin, WalkEmpty, WalkStops, WalkMissing, WalkLink, WalkOn, Walk, store
  <2>3. CASE OpenExisting \/ OpenMissing \/ OpenCreates \/ Opens \/ Closes \/ Chdir \/ Chroot \/ Mkdev \/ Execve
    BY <2>3, Zenon DEF OpenExisting, OpenMissing, OpenCreates, Opens, Closes, Chdir, Chroot, Mkdev, Execve, store
  <2>4. ASSUME NEW f \in DOMAIN fd, Close(f) \/ fchdir(f) PROVE sb' = sb
    BY <2>4, Zenon DEF Close, fchdir, store
  <2>5. CASE UNCHANGED vars
    BY <2>5, Zenon DEF vars
  <2> QED
    BY <2>1, <2>2, <2>3, <2>4, <2>5, Zenon DEF Next, Stopped
<1> QED
  BY <1>2, NewInode, Zenon DEF SbInv

\* What a call finds when it has a descriptor.
LEMMA OpenedFacts ==
    ASSUME NameInv, FdInv, NEW op, Opened(op), NEW x, x = fd[file]
    PROVE  /\ Running /\ pc = "opened" /\ StoreInv /\ Refs /\ BootInv
           /\ x \in NotLinks
           /\ \A f \in 0 .. NFD - 1 : Closed(file)[f] \in NotLinks \cup {0}
           /\ op = "mkdev" => inode[x].ops = "tmpfile"
<1>1. Running /\ pc = "opened" /\ req.op = op
  BY Zenon DEF Opened
<1>2. StoreInv /\ Refs /\ BootInv /\ x # 0 /\ (op = "mkdev" => inode[x].ops = "tmpfile")
  BY <1>1, Zenon DEF NameInv, CallInv, OpenedInv
<1>3. file \in 0 .. NFD - 1
  BY <1>1, Zenon DEF FdInv
<1>4. x \in NotLinks
  BY <1>2, <1>3, Zenon DEF Refs
<1>5. \A f \in 0 .. NFD - 1 : Closed(file)[f] \in NotLinks \cup {0}
  BY <1>2, Zenon DEF Refs, Closed, FdInv
<1> QED
  BY <1>1, <1>2, <1>4, <1>5, Zenon

\* Calls that return and leave the tables alone.
LEMMA ReturnNames ==
    ASSUME NameInv, FdInv, NEW op, Opened(op), UNCHANGED <<inode, sb, dcache, hidden>>,
           Return \/ Fail, root' \in {root, fd[file]}, cwd' \in {cwd, fd[file]},
           fd' \in {fd, Closed(file)}
    PROVE  NameInv'
<1>1. PICK x : x = fd[file]
  BY Zenon
<1>2. /\ StoreInv /\ Refs /\ BootInv /\ x \in NotLinks
      /\ \A f \in 0 .. NFD - 1 : Closed(file)[f] \in NotLinks \cup {0}
  BY <1>1, OpenedFacts, Zenon
<1>3. StoreInv' /\ NotLinks' = NotLinks
  BY <1>2, SameStore, Zenon
<1>4. \A f \in 0 .. NFD - 1 : fd'[f] \in NotLinks \cup {0}
  BY <1>2, Zenon DEF Refs
<1>5. root' \in NotLinks /\ cwd' \in NotLinks
  BY <1>1, <1>2, Zenon DEF Refs
<1>6. NoCall /\ (boot' = boot \/ boot' = IF Booted THEN boot ELSE boot + 1)
  BY Zenon DEF Return, Fail
<1>7. Refs' /\ CallInv'
  BY <1>2, <1>3, <1>4, <1>5, <1>6, EndNames, Zenon
<1>8. BootInv'
  BY <1>2, <1>6, EndBoot, Zenon
<1> QED
  BY <1>3, <1>7, <1>8, Zenon DEF NameInv

\* The second sys_open of a call.
LEMMA SecondNames ==
    ASSUME NameInv, FdInv, NEW op, op # "mkdev", Opened(op), UNCHANGED <<inode, sb, dcache, hidden>>,
           OpenSecond, UNCHANGED <<root, cwd>>, fd' = Closed(file)
    PROVE  NameInv'
<1>1. PICK x : x = fd[file]
  BY Zenon
<1>2. /\ StoreInv /\ Refs /\ BootInv /\ x \in NotLinks
      /\ \A f \in 0 .. NFD - 1 : Closed(file)[f] \in NotLinks \cup {0}
  BY <1>1, OpenedFacts, Zenon
<1>3. StoreInv' /\ NotLinks' = NotLinks
  BY <1>2, SameStore, Zenon
<1>4. pc' = "walk" /\ look' = Lookup(req.dev) /\ first' = x /\ UNCHANGED <<req, boot>>
  BY <1>1, Zenon DEF OpenSecond
<1>5. Refs' /\ BootInv'
  BY <1>2, <1>3, <1>4, Zenon DEF Refs, BootInv
<1>6. IsLook(look') /\ WalkInv'
  BY <1>2, <1>4, StartWalk, Zenon
<1>7. FoundInv' /\ OpenedInv'
  BY <1>4, Zenon DEF FoundInv, OpenedInv
<1>8. req'.op # "mkdev"
  BY <1>4, Zenon DEF Opened
<1>9. CallInv'
  BY <1>6, <1>7, <1>8, Zenon DEF CallInv
<1> QED
  BY <1>3, <1>5, <1>9, Zenon DEF NameInv

\* A call that changed an inode and returns.
LEMMA ChangedNames ==
    ASSUME NameInv, FdInv, NEW op, Opened(op), StoreInv', NotLinks \subseteq NotLinks',
           Return, UNCHANGED <<root, cwd>>, fd' = Closed(file)
    PROVE  NameInv'
<1>1. /\ Refs /\ BootInv
      /\ \A f \in 0 .. NFD - 1 : Closed(file)[f] \in NotLinks \cup {0}
  BY OpenedFacts, Zenon
<1>2. NoCall /\ boot' = IF Booted THEN boot ELSE boot + 1
  BY Zenon DEF Return
<1>3. /\ root' \in NotLinks' /\ cwd' \in NotLinks'
      /\ \A f \in 0 .. NFD - 1 : fd'[f] \in NotLinks' \cup {0}
  BY <1>1, Zenon DEF Refs
<1>4. Refs' /\ CallInv'
  BY <1>1, <1>2, <1>3, EndNames, Zenon
<1>5. BootInv'
  BY <1>1, <1>2, EndBoot, Zenon
<1> QED
  BY <1>4, <1>5, Zenon DEF NameInv

\* device_mkdev makes a device of the file.
LEMMA MkdevNames ==
    ASSUME NameInv, FdInv, Mkdev
    PROVE  NameInv'
<1>1. PICK d : d = fd[file]
  BY Zenon
<1>2. /\ Opened("mkdev") /\ inode' = [inode EXCEPT ![d].ops = "node"] /\ Return
      /\ UNCHANGED <<sb, dcache, hidden, root, cwd>> /\ fd' = Closed(file)
  BY <1>1, Zenon DEF Mkdev
<1>3. StoreInv /\ d \in NotLinks /\ inode[d].ops = "tmpfile"
  BY <1>1, <1>2, OpenedFacts, Zenon
<1>4. d \in DOMAIN inode /\ d \in 1 .. Len(inode) /\ IsInode(inode[d])
  BY <1>3, Count, Zenon DEF NotLinks, StoreInv, Tables
<1>5. PICK r, s : r = inode[d] /\ s = [r EXCEPT !.ops = "node"]
  BY Zenon
<1>6. inode'[d] = s /\ \A i \in DOMAIN inode : i # d => inode'[i] = inode[i]
  BY <1>2, <1>4, <1>5, Zenon
<1>7. IsInode(s) /\ s.name = r.name /\ s.parent = r.parent /\ s.ops = "node"
  <2>1. IsInode(r)
    BY <1>4, <1>5, Zenon
  <2> QED
    BY <1>5, <2>1 DEF IsInode
<1>8. "node" # "extlink" /\ "node" # "bind" /\ "tmpfile" # "extdir"
  OBVIOUS
<1>9. inode' = [i \in DOMAIN inode |-> inode'[i]]
  BY <1>2, Zenon
<1>10. Changes(d)
  BY <1>5, <1>6, <1>7, <1>8, <1>9, Zenon DEF Changes
<1>11. StoreInv' /\ NotLinks \subseteq NotLinks'
  BY <1>2, <1>3, <1>4, <1>6, <1>7, <1>8, <1>10, ChangeStore, Zenon DEF SbGrows
<1> QED
  BY <1>2, <1>11, ChangedNames, Zenon

\* The cache has every inode but the root's.
LEMMA AllCached ==
    ASSUME Tables, NEW i \in 2 .. Len(inode)
    PROVE  i \in Range(dcache)
<1>1. PICK N \in Nat : N = Len(inode)
  BY Count, Zenon
<1>2. i - 1 \in 1 .. N - 1 /\ (i - 1) + 1 = i
  BY <1>1
<1>3. dcache = [k \in 1 .. N - 1 |-> k + 1]
  BY <1>1, Zenon DEF Tables
<1>4. i - 1 \in DOMAIN dcache /\ dcache[i - 1] = i
  BY <1>2, <1>3
<1> QED
  BY <1>4, Zenon DEF Range

\* vfs_mount on an inode.
LEMMA MountStore ==
    ASSUME StoreInv, SbInv, NEW dev \in NotLinks \cup {0}, NEW d \in NotLinks,
           vfs_mount(dev, d)
    PROVE  StoreInv' /\ NotLinks \subseteq NotLinks'
<1>1. CASE UNCHANGED store
  BY <1>1, SameStore, Zenon DEF store
<1>2. CASE ~UNCHANGED store
  <2>1. PICK a, o, k : a = Len(sb) + 1 /\ o = Mounts(dev, d).ops /\ k = Mounts(dev, d).ino
    BY Zenon
  <2>2. PICK b : b = [fs |-> req.fs, dev |-> dev, root |-> d]
    BY Zenon
  <2>3. /\ req.fs \in {"tmpfs", "ext2", "bind"} /\ ~MountAsserts(dev)
        /\ sb' = Append(sb, b)
        /\ inode' = [inode EXCEPT ![d].sb = a, ![d].ops = o, ![d].ino = k]
        /\ hidden' = IF \E e \in Range(dcache) : inode[e].parent = d
                       THEN hidden \cup {d} ELSE hidden
        /\ dcache' = dcache
    BY <1>2, <2>1, <2>2, Zenon DEF vfs_mount
  <2>4. d \in DOMAIN inode /\ d \in 1 .. Len(inode) /\ IsInode(inode[d])
    BY Count, Zenon DEF NotLinks, StoreInv, Tables
  <2>5. PICK r, s : r = inode[d] /\ s = [r EXCEPT !.sb = a, !.ops = o, !.ino = k]
    BY Zenon
  <2>6. inode'[d] = s /\ \A i \in DOMAIN inode : i # d => inode'[i] = inode[i]
    <3>1. PICK t : t = [inode EXCEPT ![d].sb = a]
      BY Zenon
    <3>2. PICK u : u = [t EXCEPT ![d].ops = o]
      BY Zenon
    <3>3. inode' = [u EXCEPT ![d].ino = k]
      BY <2>3, <3>1, <3>2, Zenon
    <3>4. PICK v, w : v = [r EXCEPT !.sb = a] /\ w = [v EXCEPT !.ops = o]
      BY Zenon
    <3>5. s = [w EXCEPT !.ino = k]
      BY <2>5, <3>4, Zenon
    <3>6. DOMAIN t = DOMAIN inode /\ t[d] = v /\ \A i \in DOMAIN inode : i # d => t[i] = inode[i]
      BY <2>4, <2>5, <3>1, <3>4, Zenon
    <3>7. DOMAIN u = DOMAIN inode /\ u[d] = w /\ \A i \in DOMAIN inode : i # d => u[i] = t[i]
      BY <2>4, <3>2, <3>4, <3>6, Zenon
    <3>8. inode'[d] = s /\ \A i \in DOMAIN inode : i # d => inode'[i] = u[i]
      BY <2>4, <3>3, <3>5, <3>7, Zenon
    <3> QED
      BY <3>6, <3>7, <3>8, Zenon
  <2>7. IsInode(s) /\ s.name = r.name /\ s.parent = r.parent /\ s.sb = a /\ s.ops = o
    <3>1. IsInode(r)
      BY <2>4, <2>5, Zenon
    <3> QED
      BY <2>5, <3>1 DEF IsInode
  <2>8. o # "extlink" /\ (o = "bind" => req.fs = "bind")
    <3>1. req.fs \in {"tmpfs", "ext2", "bind"} /\ o = Mounts(dev, d).ops
      BY <2>1, <2>3, Zenon
    <3> QED
      BY <3>1 DEF Mounts
  <2>9. inode' = [i \in DOMAIN inode |-> inode'[i]]
    BY <2>3, Zenon
  <2>10. Changes(d)
    BY <2>5, <2>6, <2>7, <2>8, <2>9, Zenon DEF Changes
  <2>11. a \in DOMAIN sb' /\ sb'[a] = b /\ SbGrows
    <3>1. sb \in Seq(Range(sb)) /\ sb' = Append(sb, b)
      BY <2>3, Zenon DEF SbInv
    <3>2. /\ Len(sb) + 1 \in DOMAIN sb' /\ sb'[Len(sb) + 1] = b
          /\ \A j \in DOMAIN sb : j \in DOMAIN sb' /\ sb'[j] = sb[j]
      BY <3>1
    <3> QED
      BY <2>1, <3>2, Zenon DEF SbGrows
  <2>12. inode'[d].ops = "bind" =>
           inode'[d].sb \in DOMAIN sb' /\ sb'[inode'[d].sb].dev \in 1 .. Len(inode)
    <3>1. b.dev = dev
      BY <2>2
    <3>2. o = "bind" => dev # 0
      BY <2>3, <2>8, Zenon DEF MountAsserts
    <3> QED
      BY <2>6, <2>7, <2>11, <3>1, <3>2, Zenon DEF NotLinks
  <2>13. d \in hidden' \/ \A i \in 2 .. Len(inode) : inode[i].parent # d
    BY <2>3, AllCached, Zenon DEF StoreInv
  <2>14. hidden \subseteq hidden'
    BY <2>3, Zenon
  <2> QED
    BY <2>3, <2>4, <2>10, <2>11, <2>12, <2>13, <2>14, ChangeStore, Zenon
<1> QED
  BY <1>1, <1>2, Zenon

\* What sys_mount leaves.
LEMMA MountNames ==
    ASSUME NameInv, FdInv, SbInv, Mount
    PROVE  NameInv'
<1>1. Opened("mount") /\ fd' = Closed(file) /\ UNCHANGED <<root, cwd>>
  BY Zenon DEF Mount
<1>2. PICK x : x = fd[file]
  BY Zenon
<1>3. StoreInv /\ Refs /\ BootInv /\ x \in NotLinks
  BY <1>1, <1>2, OpenedFacts, Zenon
<1>4. ASSUME NEW dev \in NotLinks \cup {0}, NEW dir \in NotLinks, vfs_mount(dev, dir)
      PROVE  NameInv'
  <2>1. StoreInv' /\ NotLinks \subseteq NotLinks'
    BY <1>3, <1>4, MountStore, Zenon
  <2>2. CASE Return
    BY <1>1, <2>1, <2>2, ChangedNames, Zenon
  <2>3. CASE Fail /\ UNCHANGED store
    BY <1>1, <2>3, ReturnNames, Zenon DEF store
  <2>4. CASE kpanic("mount") /\ UNCHANGED store
    <3>1. ~Running' /\ UNCHANGED <<first, boot>>
      BY <2>4 DEF kpanic, flow, Running
    <3> QED
      BY <1>1, <2>4, <3>1, StopNames, Zenon DEF store
  <2> QED
    BY <1>4, <2>2, <2>3, <2>4, Zenon DEF vfs_mount
<1>5. CASE first = 0 /\ req.dev = NoPath /\ vfs_mount(0, fd[file])
  BY <1>2, <1>3, <1>4, <1>5, Zenon
<1>6. CASE first = 0 /\ req.dev # NoPath /\ OpenSecond /\ UNCHANGED store
  <2>1. "mount" # "mkdev"
    OBVIOUS
  <2> QED
    BY <1>1, <1>6, <2>1, SecondNames, Zenon DEF store
<1>7. CASE first # 0 /\ vfs_mount(fd[file], first)
  <2>1. first \in NotLinks
    BY <1>3, <1>7, Zenon DEF Refs
  <2> QED
    BY <1>2, <1>3, <1>4, <1>7, <2>1, Zenon
<1> QED
  BY <1>5, <1>6, <1>7, Zenon DEF Mount

\* What sys_execve leaves.
LEMMA ExecveNames ==
    ASSUME NameInv, FdInv, Execve
    PROVE  NameInv'
<1>1. Opened("execve") /\ UNCHANGED <<inode, sb, dcache, hidden, root, cwd>>
  BY Zenon DEF Execve, store
<1>2. CASE OpenSecond /\ fd' = Closed(file)
  <2>1. "execve" # "mkdev"
    OBVIOUS
  <2> QED
    BY <1>1, <1>2, <2>1, SecondNames, Zenon
<1>3. CASE (Return \/ Fail) /\ fd' \in {fd, Closed(file)}
  BY <1>1, <1>3, ReturnNames, Zenon
<1> QED
  BY <1>2, <1>3, Zenon DEF Execve

\* sys_close and sys_fchdir.
LEMMA IdleNames ==
    ASSUME NameInv, FdInv, NEW f \in DOMAIN fd, Close(f) \/ fchdir(f)
    PROVE  NameInv'
<1>1. /\ Running /\ pc = "idle" /\ StoreInv /\ Refs /\ BootInv /\ f \in 0 .. NFD - 1
      /\ UNCHANGED <<inode, sb, dcache, hidden, root>>
  BY Zenon DEF Close, fchdir, store, NameInv, FdInv
<1>2. StoreInv' /\ NotLinks' = NotLinks
  BY <1>1, SameStore, Zenon
<1>3. CASE kpanic("close") /\ UNCHANGED <<fd, cwd>>
  <2>1. ~Running' /\ UNCHANGED <<first, boot>>
    BY <1>3 DEF kpanic, flow, Running
  <2> QED
    BY <1>1, <1>3, <2>1, StopNames, Zenon
<1>4. CASE UNCHANGED <<flow, panic>> /\ fd' \in {fd, Closed(f)}
           /\ (cwd' = cwd \/ (cwd' = fd[f] /\ fd[f] # 0))
  <2>1. \A g \in 0 .. NFD - 1 : fd'[g] \in NotLinks \cup {0}
    BY <1>1, <1>4, Zenon DEF Refs, Closed, FdInv
  <2>2. cwd' \in NotLinks
    BY <1>1, <1>4, Zenon DEF Refs
  <2>3. pc' = "idle" /\ UNCHANGED <<req, look, first, boot>>
    BY <1>1, <1>4, Zenon DEF flow
  <2>4. Refs' /\ BootInv'
    BY <1>1, <1>2, <2>1, <2>2, <2>3, Zenon DEF Refs, BootInv
  <2>5. WalkInv' /\ FoundInv' /\ OpenedInv'
    BY <2>3, Zenon DEF WalkInv, FoundInv, OpenedInv
  <2>6. CallInv'
    BY <1>1, <2>3, <2>5, Zenon DEF CallInv, NameInv
  <2> QED
    BY <1>2, <2>4, <2>6, Zenon DEF NameInv
<1> QED
  BY <1>3, <1>4, Zenon DEF Close, fchdir, task

\* Nothing happens.
LEMMA StutterNames ==
    ASSUME NameInv, UNCHANGED vars
    PROVE  NameInv'
<1>1. /\ UNCHANGED <<inode, sb, dcache, hidden, fd, root, cwd>>
      /\ UNCHANGED <<pc, req, look, first, file, boot, panic>>
  BY Zenon DEF vars
<1>2. StoreInv' /\ NotLinks' = NotLinks /\ Tables' /\ Tables
  BY <1>1, SameStore, Zenon DEF NameInv, StoreInv
<1>3. Refs' /\ BootInv'
  BY <1>1, <1>2, Zenon DEF NameInv, Refs, BootInv
<1>4. ASSUME NEW e \in 1 .. Len(inode) PROVE LastHop(e, "")' = LastHop(e, "")
  <2>1. Extends /\ Len(inode') = Len(inode)
    BY <1>1, Zenon DEF Extends
  <2> QED
    BY <1>2, <2>1, GrowHops, Zenon
<1>5. DirNamed => DirNamed'
  BY <1>1, Zenon DEF DirNamed
<1>6. LinkDir => LinkDir'
  <2> SUFFICES ASSUME LinkDir, look'.link, look'.clean
               PROVE  look'.dir \in 1 .. Len(inode') /\ ExtDir(look.dir)'
    BY Zenon DEF LinkDir, ExtDir
  <2>1. PICK e : e = look.dir
    BY Zenon
  <2>2. e \in 1 .. Len(inode) /\ ExtDir(e)
    BY <1>1, <2>1, Zenon DEF LinkDir
  <2>3. inode'[LastHop(e, "")'].ops = "extdir"
    BY <1>1, <1>4, <2>2, Zenon DEF ExtDir
  <2> QED
    BY <1>1, <2>1, <2>2, <2>3, Zenon DEF ExtDir
<1>7. DirNamed /\ Fresh => Fresh'
  <2> SUFFICES ASSUME DirNamed, Fresh, look'.at = 0, look'.dir # 0, ~look'.link,
                      look'.name \notin {".", ".."}
               PROVE  vfs_dcache_find(LastHop(look.dir, ""), look.name)' = 0
    BY Zenon DEF Fresh
  <2>1. PICK e, n, d : e = look.dir /\ n = look.name /\ d = LastHop(e, "")
    BY Zenon
  <2>2. vfs_dcache_find(d, n) = 0 /\ e \in 1 .. Len(inode)
    BY <1>1, <2>1, Zenon DEF Fresh, DirNamed
  <2>3. look'.dir = e /\ look'.name = n /\ LastHop(e, "")' = d
    BY <1>1, <1>4, <2>1, <2>2, Zenon
  <2>4. vfs_dcache_find(d, n)' = 0
    BY <1>1, <1>2, <2>2, StillMissing, Zenon
  <2> QED
    BY <2>3, <2>4, Zenon
<1>8. WalkInv => WalkInv'
  BY <1>1, <1>2, <1>5, <1>6, Zenon DEF WalkInv
<1>9. FoundInv => FoundInv'
  BY <1>1, <1>2, <1>5, <1>6, <1>7, Zenon DEF FoundInv
<1>10. OpenedInv => OpenedInv'
  BY <1>1, Zenon DEF OpenedInv
<1>11. CallInv => CallInv'
  BY <1>1, <1>8, <1>9, <1>10, Zenon DEF CallInv, Running
<1> QED
  BY <1>2, <1>3, <1>11, Zenon DEF NameInv

-----------------------------------------------------------------------------
(* Names, and calls that do not come back                                  *)

\* The kernel starts with empty tables and an empty cache.
LEMMA FilesInit == Init => FdInv /\ CacheInv
<1> SUFFICES ASSUME Init PROVE FdInv /\ CacheInv
  BY Zenon
<1>1. FdInv
  BY Zenon DEF Init, FdInv
<1>2. inode = <<vfs_root>> /\ dcache = << >> /\ panic = "no"
  BY Zenon DEF Init
<1>3. inode \in Seq(Range(inode)) /\ Len(inode) = 1
  BY <1>2 DEF Range
<1>4. dcache \in Seq(Nat) /\ Range(dcache) = {}
  BY <1>2 DEF Range
<1> QED
  BY <1>1, <1>2, <1>3, <1>4, Zenon DEF CacheInv

\* All that is known of the tables between steps
FilesInv == FdInv /\ CacheInv /\ SbInv /\ NameInv

\* The kernel stops where it is.
LEMMA WalkStopsNames ==
    ASSUME NameInv, FdInv, WalkStops
    PROVE  NameInv'
<1>1. UNCHANGED <<inode, sb, dcache, hidden, root, cwd, fd, first, boot>>
  BY Zenon DEF WalkStops, store, task, kpanic, flow
<1>2. panic' = CASE Hangs        -> "hang"
                 [] AssertsCache -> "dcache"
                 [] OTHER        -> "deadlock"
  BY Zenon DEF WalkStops, kpanic
<1>3. panic' \in {"hang", "dcache", "deadlock"}
  BY <1>2, Zenon
<1>4. ~Running'
  BY <1>3 DEF Running
<1> QED
  BY <1>1, <1>4, StopNames, Zenon

\* Every step keeps the naming invariant.
LEMMA NameStep == FilesInv /\ [Next]_vars => NameInv'
<1> SUFFICES ASSUME FilesInv, [Next]_vars PROVE NameInv'
  BY Zenon
<1>1. NameInv /\ FdInv /\ CacheInv /\ SbInv
  BY Zenon DEF FilesInv
<1>2. CASE BootCall
  <2>1. ~Booted /\ Begin(BootCalls[boot])
    BY <1>2, Zenon DEF BootCall
  <2>2. boot \in 1 .. 7
    <3>1. boot \in 1 .. 8 /\ ~(boot > 7)
      BY <1>1, <2>1, BootLength, Zenon DEF NameInv, BootInv
    <3> QED
      BY <3>1
  <2> QED
    BY <1>1, <2>1, <2>2, BootRequests, BeginNames, Zenon
<1>3. CASE ProgramCall
  <2>1. PICK r \in Calls : Begin(r)
    BY <1>3, Zenon DEF ProgramCall
  <2>2. r.op # "mkdev"
    BY <2>1, FilesAssumption, Zenon
  <2> QED
    BY <1>1, <2>1, <2>2, BeginNames, Zenon
<1>4. CASE WalkEmpty
  BY <1>1, <1>4, EmptyNames, Zenon
<1>5. CASE WalkStops
  BY <1>1, <1>5, WalkStopsNames, Zenon
<1>6. CASE WalkMissing
  BY <1>1, <1>6, MissingNames, Zenon
<1>7. CASE WalkLink
  BY <1>1, <1>7, LinkNames, Zenon
<1>8. CASE WalkOn
  BY <1>1, <1>8, OnNames, Zenon
<1>9. CASE OpenExisting
  BY <1>1, <1>9, ExistingNames, Zenon
<1>10. CASE OpenMissing
  BY <1>1, <1>10, NotThereNames, Zenon
<1>11. CASE OpenCreates
  BY <1>1, <1>11, CreateNames, Zenon
<1>12. CASE Opens \/ Closes \/ Chdir \/ Chroot
  <2>1. \E op : Opened(op)
    BY <1>12, Zenon DEF Opens, Closes, Chdir, Chroot
  <2>2. /\ UNCHANGED <<inode, sb, dcache, hidden>> /\ Return
        /\ root' \in {root, fd[file]} /\ cwd' \in {cwd, fd[file]}
        /\ fd' \in {fd, Closed(file)}
    BY <1>12, Zenon DEF Opens, Closes, Chdir, Chroot, store
  <2> QED
    BY <1>1, <2>1, <2>2, ReturnNames, Zenon
<1>13. CASE Mkdev
  BY <1>1, <1>13, MkdevNames, Zenon
<1>14. CASE Mount
  BY <1>1, <1>14, MountNames, Zenon
<1>15. CASE Execve
  BY <1>1, <1>15, ExecveNames, Zenon
<1>16. ASSUME NEW f \in DOMAIN fd, Close(f) \/ fchdir(f) PROVE NameInv'
  BY <1>1, <1>16, IdleNames, Zenon
<1>17. CASE UNCHANGED vars
  BY <1>1, <1>17, StutterNames, Zenon
<1> QED
  BY <1>2, <1>3, <1>4, <1>5, <1>6, <1>7, <1>8, <1>9, <1>10, <1>11, <1>12, <1>13,
     <1>14, <1>15, <1>16, <1>17, Zenon DEF Next, Stopped

\* The kernel starts with the inode of the root alone.
LEMMA NameInit == Init => FilesInv
<1> SUFFICES ASSUME Init PROVE FilesInv
  BY Zenon
<1>1. FdInv /\ CacheInv
  BY FilesInit, Zenon
<1>2. /\ inode = <<vfs_root>> /\ sb = << >> /\ dcache = << >> /\ root = 1 /\ cwd = 1
      /\ first = 0 /\ pc = "idle" /\ look = NoLook /\ req = open(NoPath, FALSE)
      /\ boot = 1 /\ fd = [f \in 0 .. NFD - 1 |-> 0]
  BY Zenon DEF Init
<1>3. SbInv
  BY <1>2 DEF SbInv, Range
<1>4. /\ Len(inode) = 1 /\ inode[1] = vfs_root /\ 2 .. 1 = {} /\ 1 .. 1 = {1}
      /\ inode \in Seq(Range(inode))
  <2>1. Len(inode) = 1 /\ inode[1] = vfs_root /\ 2 .. 1 = {} /\ 1 .. 1 = {1}
    BY <1>2
  <2> QED
    BY <1>1, <2>1, Zenon DEF CacheInv
<1>5. /\ IsInode(vfs_root) /\ vfs_root.parent = 0
      /\ vfs_root.ops # "bind" /\ vfs_root.ops # "extlink"
  BY DEF IsInode, vfs_root
<1>6. Tables
  <2>1. Len(inode) \in Nat \ {0} /\ dcache = [k \in 1 .. Len(inode) - 1 |-> k + 1]
    BY <1>2, <1>4
  <2> QED
    BY <1>4, <1>5, <2>1, Zenon DEF Tables
<1>7. Unique /\ LinksIn /\ NotLinks = {1}
  BY <1>4, <1>5, Zenon DEF Unique, LinksIn, NotLinks
<1>8. Refs
  BY <1>2, <1>7, Zenon DEF Refs
<1>9. IsLook(look) /\ req.op # "mkdev"
  <2>1. IsLook(NoLook) /\ open(NoPath, FALSE).op # "mkdev"
    BY DEF IsLook, NoLook, open, Request
  <2> QED
    BY <1>2, <2>1, Zenon
<1>10. CallInv
  BY <1>2, <1>9, Zenon DEF CallInv, WalkInv, FoundInv, OpenedInv
<1>11. BootInv
  BY <1>2 DEF BootInv
<1> QED
  BY <1>1, <1>3, <1>6, <1>7, <1>8, <1>10, <1>11, Zenon DEF FilesInv, NameInv, StoreInv

\* Every step keeps all of it.
LEMMA FilesStep == FilesInv /\ [Next]_vars => FilesInv'
BY FdStep, CacheStep, SbStep, NameStep, Zenon DEF FilesInv

\* Inodes that are unique are the ones the cache finds.
LEMMA NamesUnique == FilesInv => OneInodePerEntry
<1> SUFFICES ASSUME FilesInv, NEW i \in 2 .. Len(inode), inode[i].parent \notin hidden
             PROVE  vfs_dcache_find(inode[i].parent, inode[i].name) = i
  BY Zenon DEF OneInodePerEntry
<1>1. Tables /\ Unique
  BY Zenon DEF FilesInv, NameInv, StoreInv
<1>2. PICK p, n : p = inode[i].parent /\ n = inode[i].name
  BY Zenon
<1>3. PICK c : c = vfs_dcache_find(p, n)
  BY Zenon
<1>4. c # 0 /\ c \in 2 .. Len(inode) /\ inode[c].parent = p /\ inode[c].name = n
  <2>1. /\ c = 0 => \A j \in 2 .. Len(inode) : ~(inode[j].parent = p /\ inode[j].name = n)
        /\ c # 0 => c \in 2 .. Len(inode) /\ inode[c].parent = p /\ inode[c].name = n
    <3>1. c = 0 => \A j \in 2 .. Len(inode) : ~(inode[j].parent = p /\ inode[j].name = n)
      BY <1>1, <1>3, FindFacts
    <3>2. c # 0 => c \in 2 .. Len(inode) /\ inode[c].parent = p /\ inode[c].name = n
      BY <1>1, <1>3, FindFacts
    <3> QED
      BY <3>1, <3>2, Zenon
  <2> QED
    BY <1>2, <2>1, Zenon
<1> QED
  BY <1>1, <1>2, <1>3, <1>4, Zenon DEF Unique

\* A lookup that never comes back, or an inode whose lock is taken, is one of
\* a cycle of bind mounts.
StuckInv == panic \in {"hang", "deadlock"} => BindCycle

\* A cycle stays one.
LEMMA SameCycle ==
    ASSUME FilesInv, FilesInv', UNCHANGED <<inode, sb, dcache>>, BindCycle
    PROVE  BindCycle'
<1>1. PICK i \in DOMAIN inode : Loops(i, "")
  BY Zenon DEF BindCycle
<1>2. Tables /\ Tables' /\ i \in 1 .. Len(inode)
  BY Count, Zenon DEF FilesInv, NameInv, StoreInv
<1>3. Extends /\ Len(inode') = Len(inode)
  BY Zenon DEF Extends
<1>4. PICK l : l = LastHop(i, "")
  BY Zenon
<1>5. LastHop(i, "")' = l
  BY <1>2, <1>3, <1>4, GrowHops, Zenon
<1>6. inode[l].ops = "bind"
  BY <1>1, <1>4, Zenon DEF Loops, Forwards
<1>7. AllNameless'
  BY <1>2, Ways, PTL
<1>8. Forwards(l, "")'
  BY <1>6, <1>7, Zenon DEF Forwards, AllNameless
<1>9. Loops(i, "")'
  BY <1>5, <1>8, Zenon DEF Loops
<1> QED
  BY <1>1, <1>9, Zenon DEF BindCycle

\* A lookup of a name that goes round goes round without it.
LEMMA LoopsNameless ==
    ASSUME Tables, NEW i \in 1 .. Len(inode), NEW n, Loops(i, n)
    PROVE  Loops(i, "")
<1>1. PICK l : l = LastHop(i, n)
  BY Zenon
<1>2. Forwards(l, n)
  BY <1>1, Zenon DEF Loops
<1>3. LastHop(i, "") = l
  BY <1>1, <1>2, NamelessHops, Zenon DEF StopsShort
<1>4. Forwards(l, "")
  BY <1>2, Nameless, Zenon DEF Forwards
<1> QED
  BY <1>3, <1>4, Zenon DEF Loops

\* A step that hangs, or stops the kernel at a lock, does so at a cycle.
LEMMA StuckStep == FilesInv /\ FilesInv' /\ StuckInv /\ [Next]_vars => StuckInv'
<1> SUFFICES ASSUME FilesInv, FilesInv', StuckInv, [Next]_vars, panic' \in {"hang", "deadlock"}
             PROVE  BindCycle'
  BY Zenon DEF StuckInv
<1>1. Tables /\ NameInv
  BY Zenon DEF FilesInv, NameInv, StoreInv
<1>2. DOMAIN inode = 1 .. Len(inode)
  BY <1>1, Count, Zenon
<1>3. CASE UNCHANGED vars
  BY <1>3, SameCycle, Zenon DEF vars, StuckInv
<1>4. CASE WalkStops
  <2>1. /\ UNCHANGED <<inode, sb, dcache>>
        /\ Hangs \/ AssertsCache \/ AssertsLock
        /\ Running /\ pc = "walk"
    BY <1>4, Zenon DEF WalkStops, store
  <2>2. ~AssertsCache
    BY NeverAsserts, Zenon DEF FilesInv
  <2>3. StoreInv /\ look.at \in NotLinks
    BY <1>1, <2>1, Zenon DEF NameInv, CallInv, WalkInv
  <2>4. CASE Hangs
    <3>1. Loops(look.at, Component) /\ look.at \in 1 .. Len(inode)
      BY <2>3, <2>4, Zenon DEF Hangs, NotLinks
    <3>2. Loops(look.at, "")
      BY <1>1, <3>1, LoopsNameless, Zenon
    <3>3. BindCycle
      BY <1>2, <3>1, <3>2, Zenon DEF BindCycle
    <3> QED
      BY <2>1, <3>3, SameCycle, Zenon
  <2>5. CASE AssertsLock
    <3>1. Hit # 0 /\ ~HitNew /\ Loops(Hit, "")
      BY <2>5, Zenon DEF AssertsLock
    <3>2. Hit \in 1 .. Len(inode)
      BY <2>3, <3>1, HitCases, Zenon DEF MissCase, NewCase, OldCase
    <3>3. BindCycle
      BY <1>2, <3>1, <3>2, Zenon DEF BindCycle
    <3> QED
      BY <2>1, <3>3, SameCycle, Zenon
  <2> QED
    BY <2>1, <2>2, <2>4, <2>5, Zenon
<1>5. CASE OpenExisting
  <2>1. /\ UNCHANGED <<inode, sb, dcache>> /\ Running /\ pc = "found" /\ look.at # 0
        /\ Fail \/ Install(look.at) \/ Loops(look.at, "")
    BY <1>5, Zenon DEF OpenExisting, AtFound, store
  <2>2. CASE Loops(look.at, "")
    <3>1. look.at \in NotLinks \cup {0}
      BY <1>1, <2>1, Zenon DEF NameInv, CallInv, FoundInv
    <3>2. BindCycle
      BY <1>2, <2>1, <2>2, <3>1, Zenon DEF BindCycle, NotLinks
    <3> QED
      BY <2>1, <3>2, SameCycle, Zenon
  <2>3. CASE Fail \/ Install(look.at)
    <3>1. panic' \in {"no", "boot"}
      BY <2>1, <2>3, Zenon DEF Fail, Install, Running
    <3> QED
      BY <3>1
  <2> QED
    BY <2>1, <2>2, <2>3, Zenon
<1>7. CASE OpenMissing
  <2>1. /\ UNCHANGED <<inode, sb, dcache>> /\ Running /\ pc = "found" /\ look.at = 0
        /\ Fail \/ (look.dir # 0 /\ Loops(look.dir, ""))
    BY <1>7, Zenon DEF OpenMissing, AtFound, MayCreate, store
  <2>2. CASE look.dir # 0 /\ Loops(look.dir, "")
    <3>1. look.dir \in 1 .. Len(inode)
      BY <1>1, <2>1, <2>2, Zenon DEF NameInv, CallInv, FoundInv, DirNamed
    <3>2. BindCycle
      BY <1>2, <2>2, <3>1, Zenon DEF BindCycle
    <3> QED
      BY <2>1, <3>2, SameCycle, Zenon
  <2>3. CASE Fail
    <3>1. panic' \in {"no", "boot"}
      BY <2>1, <2>3, Zenon DEF Fail, Running
    <3> QED
      BY <3>1
  <2> QED
    BY <2>1, <2>2, <2>3, Zenon
<1>6. CASE ~WalkStops /\ ~OpenExisting /\ ~OpenMissing /\ Next /\ ~UNCHANGED vars
  <2>1. Running
    BY <1>6, Zenon DEF Next, BootCall, ProgramCall, Begin, WalkEmpty, WalkMissing, WalkLink, WalkOn,
       Walk, OpenCreates, AtFound, Opens, Closes, Chdir, Chroot, Mkdev, Mount, Execve,
       Opened, Close, fchdir, Stopped
  <2>2. panic' \in {"no", "boot", "empty", "dcache", "close", "mount"}
    <3>1. ASSUME NEW dev, NEW dir, vfs_mount(dev, dir) PROVE panic' \in {"no", "boot", "mount"}
      BY <2>1, <3>1, Zenon DEF vfs_mount, Fail, Return, kpanic, Running
    <3>2. CASE BootCall \/ ProgramCall
      BY <2>1, <3>2, Zenon DEF BootCall, ProgramCall, Begin, Running
    <3>3. CASE WalkEmpty \/ WalkMissing \/ WalkLink \/ WalkOn
      BY <2>1, <3>3, Zenon DEF WalkEmpty, WalkMissing, WalkLink, WalkOn, Walk, kpanic, Running
    <3>4. CASE OpenCreates
      BY <2>1, <3>4, Zenon DEF OpenCreates, Fail, Install, kpanic, Running
    <3>5. CASE Opens \/ Closes \/ Chdir \/ Chroot \/ Mkdev
      BY <2>1, <3>5, Zenon DEF Opens, Closes, Chdir, Chroot, Mkdev, Return, Running
    <3>6. CASE Mount
      BY <2>1, <3>1, <3>6, Zenon DEF Mount, OpenSecond, Running
    <3>7. CASE Execve
      BY <2>1, <3>7, Zenon DEF Execve, OpenSecond, Fail, Return, Running
    <3>8. ASSUME NEW f \in DOMAIN fd, Close(f) \/ fchdir(f)
          PROVE  panic' \in {"no", "close"}
      BY <2>1, <3>8, Zenon DEF Close, fchdir, kpanic, Running
    <3> QED
      BY <1>6, <3>2, <3>3, <3>4, <3>5, <3>6, <3>7, <3>8, Zenon DEF Next, Stopped
  <2> QED
    BY <2>2
<1> QED
  BY <1>3, <1>4, <1>5, <1>6, <1>7, Zenon

-----------------------------------------------------------------------------
(* Theorems                                                                *)
\* Whatever the calls, and however large the table: between calls the task has
\* the descriptors it was given and has not closed, on the files they were
\* opened on, and those that a failed execve left open (sys_open's search for
\* a free entry and the closing in newstat, mkdir, chdir, chroot, mount and
\* execve).
THEOREM DescriptorsSafe == Spec => []DescriptorsKept
<1>1. Init => FdInv
  BY FilesInit, Zenon
<1>2. FdInv => DescriptorsKept
  BY Zenon DEF FdInv, DescriptorsKept
<1> QED
  BY <1>1, <1>2, FdStep, PTL DEF Spec

\* The assertion in vfs_dcache_add, that an inode is not in the cache already,
\* never fails, whatever the volumes hold and wherever they are mounted.
THEOREM CacheAssertionHolds == Spec => [](panic # "dcache")
<1>1. Init => CacheInv
  BY FilesInit, Zenon
<1>2. CacheInv => panic # "dcache"
  BY Zenon DEF CacheInv
<1> QED
  BY <1>1, <1>2, CacheStep, PTL DEF Spec

\* However files are made, found, mounted and bound, and whatever the volume
\* holds: an entry of a directory has one inode, the one that the cache finds
\* by its directory and name (vfs_finddir, vfs_creat, dcache.c), unless the
\* directory was mounted on or files were made in it under the name of a link
\* of such a directory.
THEOREM NamesLead == Spec => []OneInodePerEntry
BY NameInit, FilesStep, NamesUnique, PTL DEF Spec

\* Only bind mounts that lead back to themselves make vfs_finddir or vfs_open
\* come to an inode that the call has locked (bind_fn in bindfs.c, the locks in
\* vfs.c): a call that hangs, or stops the kernel at a lock, started at one.
THEOREM StuckOnlyOnCycles == Spec => [](panic \in {"hang", "deadlock"} => BindCycle)
<1>1. Init => StuckInv
  <2>1. ASSUME Init PROVE panic = "no"
    BY <2>1, Zenon DEF Init
  <2> QED
    BY <2>1 DEF StuckInv
<1>2. StuckInv => (panic \in {"hang", "deadlock"} => BindCycle)
  BY Zenon DEF StuckInv
<1> QED
  BY <1>1, <1>2, NameInit, FilesStep, StuckStep, PTL DEF Spec
=============================================================================
