------------------------------- MODULE Files -------------------------------
(***************************************************************************)
(* Names, mounts and descriptors: kernel/fs/vfs.c, dcache.c, rootfs.c and  *)
(* bindfs.c, the mount, creat and finddir functions of tmpfs and ext2, and *)
(* the system calls that open paths, from the sequence of calls that sets  *)
(* up the root file system at boot to the calls of the first program.      *)
(*                                                                         *)
(* An inode_t is a number, its position in `inode`; 0 is NULL. There is    *)
(* one task, so calls do not overlap, but a call is many steps: one for    *)
(* every component of a path.                                              *)
(***************************************************************************)
EXTENDS Naturals, Sequences, FiniteSets, Functions

CONSTANTS
    NFD,            \* TASK_NFD
    MaxIno,         \* bound: last inode number of tmpfs (ENOSPC beyond)
    MaxMounts,      \* bound: mounts asked for, the three of the boot included
    Entries,        \* the ext2 volume: directory number -> (name -> number)
    Target,         \* the ext2 volume: number of a link -> path it holds
    Calls           \* the calls the program may make

ASSUME FilesAssumption ==
    /\ NFD \in Nat \ {0}
    /\ MaxIno \in Nat
    /\ MaxMounts \in Nat
    /\ 2 \in DOMAIN Entries
    /\ DOMAIN Entries \cap DOMAIN Target = {}
    /\ \A l \in DOMAIN Target : "" \notin {Target[l].names[i] : i \in DOMAIN Target[l].names}
    /\ \A r \in Calls : r.op # "mkdev"

VARIABLES
    inode,      \* inode_t: [name, parent, ino, sb, ops, born]
    sb,         \* struct superblock: [fs, dev, root]
    dcache,     \* the list of dcache.c
    nextIno,    \* next_ino of tmpfs_creat
    fd,         \* current_task->fd[].inode
    root,       \* current_task->root
    cwd,        \* current_task->cwd
    pc,         \* where the call is: "idle", "walk", "found" or "opened"
    req,        \* the call
    look,       \* path_lookup: [at, rest, dir, name, link, clean]
    first,      \* what the first of two sys_open of the call gave
    file,       \* the descriptor sys_open returned to the call
    boot,       \* the next call of the boot sequence
    formatted,  \* whether the disk holds an ext2 volume
    panic,      \* why the kernel stopped, or "no"
    kept,       \* history: what the program's descriptors, leaked ones
                \* included, were opened on
    made,       \* history: [in, name, place] of what tmpfs volumes hold
    covers,     \* history: place -> place mounted on it
    hidden      \* history: inodes mounted on while the cache had entries of
                \* theirs, and those in which a file was then made under the
                \* name of a link among these entries

vars == <<inode, sb, dcache, nextIno, fd, root, cwd, pc, req, look, first,
          file, boot, formatted, panic, kept, made, covers, hidden>>

store == <<inode, sb, dcache, nextIno, made, covers, hidden>>
task  == <<fd, root, cwd, kept>>
flow  == <<pc, req, look, first, file, boot>>

Path(abs, names) == [abs |-> abs, names |-> names]

Request(op, path, creates, mode, dev, fs) ==
    [op |-> op, path |-> path, creat |-> creates, mode |-> mode, dev |-> dev,
     fs |-> fs]

\* no device was named
NoPath == Path(FALSE, << >>)

mount(dev, dir, fs) == Request("mount", dir, FALSE, "none", dev, fs)
open(path, creates) == Request("open", path, creates, "file", NoPath, "none")
creat(path)         == Request("creat", path, TRUE, "file", NoPath, "none")
mkdir(path)         == Request("mkdir", path, TRUE, "dir", NoPath, "none")
newstat(path)       == Request("newstat", path, FALSE, "none", NoPath, "none")
chdir(path)         == Request("chdir", path, FALSE, "none", NoPath, "none")
chroot(path)        == Request("chroot", path, FALSE, "none", NoPath, "none")
execve(path)        == Request("execve", path, FALSE, "none", path, "none")
mkdev(path)         == Request("mkdev", path, TRUE, "file", NoPath, "none")

\* kmain, the init of the device interface and of a disk driver, root_init (which stops
\* the kernel before its calls if the command line has no root or no rootfs)
BootCalls ==
    << mount(NoPath, Path(TRUE, <<"">>), "tmpfs"),
       mkdir(Path(TRUE, <<"dev">>)),
       mkdev(Path(TRUE, <<"dev", "disk">>)),
       mkdir(Path(TRUE, <<"root">>)),
       mount(Path(TRUE, <<"dev", "disk">>), Path(TRUE, <<"root">>), "ext2"),
       mount(Path(TRUE, <<"dev">>), Path(TRUE, <<"root", "dev">>), "bind"),
       chroot(Path(TRUE, <<"root">>)) >>

Booted == boot > Len(BootCalls)

vfs_root ==
    [name |-> "/", parent |-> 0, ino |-> 1, sb |-> 0, ops |-> "root",
     born |-> <<0, 1>>]

NoLook == [at |-> 0, rest |-> << >>, dir |-> 0, name |-> "", link |-> FALSE,
           clean |-> TRUE]

Init ==
    /\ inode = <<vfs_root>>
    /\ sb = << >>
    /\ dcache = << >>
    /\ nextIno = 1
    /\ fd = [f \in 0 .. NFD - 1 |-> 0]
    /\ root = 1
    /\ cwd = 1
    /\ pc = "idle"
    /\ req = open(NoPath, FALSE)
    /\ look = NoLook
    /\ first = 0
    /\ file = 0
    /\ boot = 1
    /\ formatted \in BOOLEAN
    /\ panic = "no"
    /\ kept = [f \in 0 .. NFD - 1 |-> 0]
    /\ made = {}
    /\ covers = [p \in {} |-> <<0, 0>>]
    /\ hidden = {}

Running == panic = "no"

-----------------------------------------------------------------------------
(* vfs.c, dcache.c and bindfs.c                                            *)

\* the first entry of the list with that directory and name, or 0
vfs_dcache_find(p, n) ==
    LET hits == {k \in DOMAIN dcache : /\ inode[dcache[k]].parent = p
                                       /\ inode[dcache[k]].name = n}
    IN  IF hits = {} THEN 0
        ELSE dcache[CHOOSE k \in hits : \A j \in hits : k <= j]

\* bind_fn calls the VFS again with sb->dev, if the cache has no entry n
Forwards(j, n) == inode[j].ops = "bind" /\ vfs_dcache_find(j, n) = 0

Hop(j, n) == IF Forwards(j, n) THEN sb[inode[j].sb].dev ELSE j

\* The inodes a call goes through (calls that are not about a name give "",
\* which is nobody's). All of them are locked meanwhile, so a call that comes
\* to one twice never returns.
Hops(i, n) ==
    LET hop[k \in 0 .. Len(inode)] == IF k = 0 THEN i ELSE Hop(hop[k - 1], n)
    IN  hop

LastHop(i, n) == Hops(i, n)[Len(inode)]

Loops(i, n) == Forwards(LastHop(i, n), n)

tmpfs_finddir(d, n) ==
    {k \in DOMAIN inode : /\ inode[k].born[1] = inode[d].sb
                          /\ inode[k].parent = d
                          /\ inode[k].name = n}

ext2_has(d, n) == n \in DOMAIN Entries[inode[d].ino]

ext2_ops(k) == CASE k \in DOMAIN Entries -> "extdir"
                 [] k \in DOMAIN Target  -> "extlink"
                 [] OTHER                -> "extfile"

\* the inode_t that ext2_finddir allocates for an entry
ext2_finddir(d, n) ==
    LET k == Entries[inode[d].ino][n]
    IN  [name |-> n, parent |-> d, ino |-> k, sb |-> inode[d].sb,
         ops |-> ext2_ops(k), born |-> <<inode[d].sb, k>>]

\* What vfs_finddir(i, n) returns; an inode_t it has yet to allocate is
\* Len(inode) + 1
vfs_finddir(i, n) ==
    LET d == LastHop(i, n)
        c == vfs_dcache_find(d, n)
    IN  CASE n = "."  -> i
          [] n = ".." -> inode[i].parent
          [] OTHER ->
               IF c # 0 THEN c
               ELSE IF inode[d].ops = "tmpdir" /\ tmpfs_finddir(d, n) # {}
                 THEN CHOOSE k \in tmpfs_finddir(d, n) : TRUE
               ELSE IF inode[d].ops = "extdir" /\ ext2_has(d, n)
                 THEN Len(inode) + 1
               ELSE 0

\* The calls on the way that add what they found to the cache: the one for
\* the directory it is in
\*
\* Every one of them
AddersAll(i, n) == Range(Hops(i, n))

Adders(i, n) == {LastHop(i, n)}

\* vfs_dcache_add, for r found under name n, whose assertion fails when r is
\* there already
\*
\* Nothing added
NotAdded(r) == dcache

vfs_dcache_add(r) == Append(dcache, r)

AddFails(r, i, n) ==
    \/ \E a, b \in Adders(i, n) : a # b
    \/ r \in Range(dcache)

-----------------------------------------------------------------------------
(* The end of a call                                                       *)

\* the parts of the state that belong to a call
NoCall ==
    /\ pc' = "idle"
    /\ req' = open(NoPath, FALSE)
    /\ look' = NoLook
    /\ first' = 0
    /\ file' = 0

Return ==
    /\ NoCall
    /\ boot' = IF Booted THEN boot ELSE boot + 1
    /\ UNCHANGED panic

\* An error that the boot does not look at
FailIgnored == Return

\* An error: kmain, device_mkdev and root_init stop the kernel on theirs
Fail ==
    /\ NoCall
    /\ UNCHANGED boot
    /\ panic' = IF Booted THEN "no" ELSE "boot"

kpanic(why) == panic' = why /\ UNCHANGED flow

-----------------------------------------------------------------------------
(* path_lookup, path_find and path_symlink                                 *)

Lookup(path) ==
    [NoLook EXCEPT !.at = IF path.abs THEN root ELSE cwd, !.rest = path.names]

Begin(r) ==
    /\ Running
    /\ pc = "idle"
    /\ pc' = "walk"
    /\ req' = r
    /\ look' = Lookup(r.path)
    /\ UNCHANGED <<store, task, first, file, boot, formatted, panic>>

BootCall == ~Booted /\ Begin(BootCalls[boot])

ProgramCall ==
    /\ Booted
    /\ \E r \in Calls : /\ r.op = "mount" => Len(sb) < MaxMounts
                        /\ Begin(r)

AtLast == Len(look.rest) = 1

\* The path ends with '/': what it led to. Anywhere else an empty component
\* fails the assertion on the size in path_find.
WalkEmpty ==
    /\ Running
    /\ pc = "walk"
    /\ Head(look.rest) = ""
    /\ IF AtLast
         THEN /\ pc' = "found"
              /\ UNCHANGED <<req, look, first, file, boot, panic>>
         ELSE kpanic("empty")
    /\ UNCHANGED <<store, task, formatted>>

\* path_find for the next component
Component == Head(look.rest)

Searches == Component \notin {".", ".."}

Hit == vfs_finddir(look.at, Component)

HitNew == Hit > Len(inode)

HitInode ==
    IF HitNew THEN ext2_finddir(LastHop(look.at, Component), Component)
    ELSE inode[Hit]

\* found by the file system, not in the cache
HitUncached ==
    /\ Hit # 0
    /\ Searches
    /\ vfs_dcache_find(LastHop(look.at, Component), Component) = 0

Hangs == Searches /\ Loops(look.at, Component)

AssertsCache == HitUncached /\ AddFails(Hit, look.at, Component)

\* vfs_getattr of what was found tries the locks, and stops the kernel
AssertsLock == Hit # 0 /\ ~HitNew /\ Loops(Hit, "")

Cleanly ==
    look.clean /\ (Searches => Range(Hops(look.at, Component)) \cap hidden = {})

WalkStops ==
    /\ Running
    /\ pc = "walk"
    /\ Component # ""
    /\ Hangs \/ AssertsCache \/ AssertsLock
    /\ kpanic(CASE Hangs        -> "hang"
                [] AssertsCache -> "dcache"
                [] OTHER        -> "deadlock")
    /\ UNCHANGED <<store, task, formatted>>

Walk ==
    /\ Running
    /\ pc = "walk"
    /\ Component # ""
    /\ ~Hangs
    /\ ~AssertsCache
    /\ ~AssertsLock
    /\ inode' = IF HitNew THEN Append(inode, HitInode) ELSE inode
    /\ dcache' = IF HitUncached THEN vfs_dcache_add(Hit) ELSE dcache
    /\ UNCHANGED <<sb, nextIno, made, covers, hidden, task, req, first, file,
                   boot, formatted, panic>>

\* where a missing last component would be made
Remember(l) ==
    [l EXCEPT !.dir = IF AtLast /\ ~l.link THEN look.at ELSE @,
              !.name = IF AtLast /\ ~l.link THEN Component ELSE @,
              !.clean = Cleanly]

WalkMissing ==
    /\ Walk
    /\ Hit = 0
    /\ pc' = "found"
    /\ look' = [Remember(look) EXCEPT !.at = 0]

\* path_symlink: a link is looked up from its own directory. In the middle of
\* the path the walk goes on from there. At its end the link's path decides,
\* but a file that is missing would be made under the link's own name.
\*
\* A link looked up from where the program is
FollowFromCwd(i) == IF Target[i.ino].abs THEN root ELSE cwd

FollowFrom(i) == IF Target[i.ino].abs THEN root ELSE i.parent

WalkLink ==
    /\ Walk
    /\ Hit # 0
    /\ HitInode.ops = "extlink"
    /\ look' = [Remember(look) EXCEPT
                   !.at = FollowFrom(HitInode),
                   !.rest = Target[HitInode.ino].names \o Tail(@),
                   !.link = @ \/ AtLast]
    /\ UNCHANGED pc

WalkOn ==
    /\ Walk
    /\ Hit # 0
    /\ HitInode.ops # "extlink"
    /\ pc' = IF AtLast THEN "found" ELSE "walk"
    /\ look' = [Remember(look) EXCEPT !.at = Hit, !.rest = Tail(@)]

-----------------------------------------------------------------------------
(* sys_open after the lookup, and sys_close                                *)

Free == {f \in DOMAIN fd : fd[f] = 0}

\* the first of them
LowestFree == CHOOSE f \in Free : \A g \in Free : f <= g

Install(r) ==
    IF Free = {}
      THEN Fail /\ UNCHANGED fd
      ELSE /\ fd' = [fd EXCEPT ![LowestFree] = r]
           /\ file' = LowestFree
           /\ pc' = "opened"
           /\ UNCHANGED <<req, look, first, boot, panic>>

AtFound == Running /\ pc = "found"

MayCreate ==
    /\ req.creat
    /\ look.dir # 0
    /\ look.name \notin {".", ".."}

\* with O_EXCL, which mkdir, creat and device_mkdev give and open does not
Exclusive == req.creat /\ req.op # "open"

OpenExisting ==
    /\ AtFound
    /\ look.at # 0
    /\ IF Exclusive THEN Fail /\ UNCHANGED fd
       ELSE IF Loops(look.at, "") THEN kpanic("deadlock") /\ UNCHANGED fd
       ELSE Install(look.at)
    /\ UNCHANGED <<store, root, cwd, kept, formatted>>

\* ops.creat: only tmpfs has one, and it may be out of inodes
Creates(d) == inode[d].ops = "tmpdir" /\ nextIno < MaxIno

\* vfs_creat in a bind mount calls vfs_creat again. The lookup has come back from a
\* cycle of them only if the last component was a link that the cache had.
OpenMissing ==
    /\ AtFound
    /\ look.at = 0
    /\ IF MayCreate /\ Loops(look.dir, "") THEN kpanic("hang")
       ELSE (MayCreate => ~Creates(LastHop(look.dir, ""))) /\ Fail
    /\ UNCHANGED <<store, task, formatted>>

\* the place in the name space that a path to inode i stands for, mounts on it
\* included
Front(p) ==
    LET f[k \in 0 .. Cardinality(DOMAIN covers)] ==
          IF k = 0 THEN p
          ELSE IF f[k - 1] \in DOMAIN covers THEN covers[f[k - 1]] ELSE f[k - 1]
    IN  f[Cardinality(DOMAIN covers)]

\* tmpfs_creat in directory d, below vfs_creat
tmpfs_creat(d) ==
    [name |-> look.name, parent |-> d, ino |-> nextIno + 1, sb |-> inode[d].sb,
     ops |-> IF req.mode = "dir" THEN "tmpdir" ELSE "tmpfile",
     born |-> <<inode[d].sb, nextIno + 1>>]

OpenCreates ==
    /\ AtFound
    /\ look.at = 0
    /\ MayCreate
    /\ LET d == LastHop(look.dir, "")
       IN  /\ Creates(d)
           /\ inode' = Append(inode, tmpfs_creat(d))
           /\ nextIno' = nextIno + 1
           /\ IF AddFails(Len(inode'), look.dir, "")
                THEN kpanic("dcache") /\ UNCHANGED <<dcache, fd>>
                ELSE /\ dcache' = vfs_dcache_add(Len(inode'))
                     /\ Install(Len(inode'))
           /\ hidden' = IF look.link /\ ~look.clean THEN hidden \cup {d} ELSE hidden
           /\ made' = made \cup
                 {[in |-> Front(inode[look.dir].born), name |-> look.name,
                   place |-> tmpfs_creat(d).born]}
    /\ UNCHANGED <<sb, covers, root, cwd, kept, formatted>>

\* sys_close
\*
\* The entry of the table left
LeftOpen(f) == fd

Closed(f) == [fd EXCEPT ![f] = 0]

Close(f) ==
    /\ Running
    /\ Booted
    /\ pc = "idle"
    /\ IF fd[f] = 0
         THEN kpanic("close") /\ UNCHANGED <<fd, kept>>
         ELSE /\ fd' = Closed(f)
              /\ kept' = [kept EXCEPT ![f] = 0]
              /\ UNCHANGED <<flow, panic>>
    /\ UNCHANGED <<store, root, cwd, formatted>>

fchdir(f) ==
    /\ Running
    /\ Booted
    /\ pc = "idle"
    /\ fd[f] # 0
    /\ cwd' = fd[f]
    /\ UNCHANGED <<store, fd, root, kept, flow, formatted, panic>>

-----------------------------------------------------------------------------
(* What the calls do with the descriptor                                   *)

Opened(op) == Running /\ pc = "opened" /\ req.op = op

\* open and creat give it to the program
Opens ==
    /\ Opened("open") \/ Opened("creat")
    /\ kept' = [kept EXCEPT ![file] = fd[file]]
    /\ Return
    /\ UNCHANGED <<store, fd, root, cwd, formatted>>

\* newstat and mkdir close it again
Closes ==
    /\ Opened("newstat") \/ Opened("mkdir")
    /\ fd' = Closed(file)
    /\ Return
    /\ UNCHANGED <<store, root, cwd, kept, formatted>>

Chdir ==
    /\ Opened("chdir")
    /\ cwd' = fd[file]
    /\ fd' = Closed(file)
    /\ Return
    /\ UNCHANGED <<store, root, kept, formatted>>

Chroot ==
    /\ Opened("chroot")
    /\ cwd' = fd[file]
    /\ root' = fd[file]
    /\ fd' = Closed(file)
    /\ Return
    /\ UNCHANGED <<store, kept, formatted>>

\* device_mkdev
Mkdev ==
    /\ Opened("mkdev")
    /\ inode' = [inode EXCEPT ![fd[file]].ops = "node"]
    /\ fd' = Closed(file)
    /\ Return
    /\ UNCHANGED <<sb, dcache, nextIno, made, covers, hidden, root, cwd, kept,
                   formatted>>

\* the second sys_open of mount and of execve
OpenSecond ==
    /\ pc' = "walk"
    /\ look' = Lookup(req.dev)
    /\ first' = fd[file]
    /\ file' = 0
    /\ UNCHANGED <<req, boot, panic>>

\* vfs_mount, with what the mount function of the file system leaves in the
\* directory and its new superblock. The operations and the number of the
\* directory change places with those of the superblock; with no umount they
\* never come back.
Mounts(dev, dir) ==
    CASE req.fs = "tmpfs" -> [ops |-> "tmpdir", ino |-> inode[dir].ino]
      [] req.fs = "ext2"  -> [ops |-> "extdir", ino |-> 2]
      [] req.fs = "bind"  -> [ops |-> "bind", ino |-> inode[dir].ino]

\* the place that is then in front
Covering(dev, dir) ==
    CASE req.fs = "tmpfs" -> <<Len(sb) + 1, 0>>
      [] req.fs = "ext2"  -> <<Len(sb) + 1, 2>>
      [] req.fs = "bind"  -> inode[dev].born

MountAsserts(dev) ==
    \/ req.fs = "tmpfs" /\ dev # 0
    \/ req.fs \in {"ext2", "bind"} /\ dev = 0
    \/ req.fs = "bind" /\ dev # 0 /\ inode[dev].sb = 0

\* ext2_mount finds no superblock
MountFails(dev) == req.fs = "ext2" /\ (inode[dev].ops # "node" \/ ~formatted)

vfs_mount(dev, dir) ==
    \/ /\ req.fs \notin {"tmpfs", "ext2", "bind"}
       /\ Fail
       /\ UNCHANGED store
    \/ /\ MountAsserts(dev)
       /\ kpanic("mount")
       /\ UNCHANGED store
    \* `(e = mount(...) < 0)`: the failure is returned as 1 and sys_mount,
    \* which looks for less than 0, returns 0
    \/ /\ req.fs \in {"tmpfs", "ext2", "bind"}
       /\ ~MountAsserts(dev)
       /\ MountFails(dev)
       /\ Return
       /\ UNCHANGED store
    \/ /\ req.fs \in {"tmpfs", "ext2", "bind"}
       /\ ~MountAsserts(dev)
       /\ ~MountFails(dev)
       /\ sb' = Append(sb, [fs |-> req.fs, dev |-> dev, root |-> dir])
       /\ inode' = [inode EXCEPT ![dir].sb = Len(sb) + 1,
                                 ![dir].ops = Mounts(dev, dir).ops,
                                 ![dir].ino = Mounts(dev, dir).ino]
       /\ covers' = [p \in DOMAIN covers \cup {inode[dir].born} |->
                       IF p = inode[dir].born THEN Covering(dev, dir)
                       ELSE covers[p]]
       /\ hidden' = IF \E e \in Range(dcache) : inode[e].parent = dir
                      THEN hidden \cup {dir} ELSE hidden
       /\ Return
       /\ UNCHANGED <<dcache, nextIno, made>>

Mount ==
    /\ Opened("mount")
    /\ fd' = Closed(file)
    /\ \/ first = 0 /\ req.dev = NoPath /\ vfs_mount(0, fd[file])
       \/ first = 0 /\ req.dev # NoPath /\ OpenSecond /\ UNCHANGED store
       \/ first # 0 /\ vfs_mount(fd[file], first)
    /\ UNCHANGED <<root, cwd, kept, formatted>>

\* execve: newstat and the check of the mode, then sys_open. A file that
\* cannot be read or is no program makes it return with the descriptor open.
Execve ==
    /\ Opened("execve")
    /\ \/ /\ first = 0
          /\ fd' = Closed(file)
          /\ OpenSecond \/ Fail
          /\ UNCHANGED kept
       \/ /\ first # 0
          /\ fd' = Closed(file)
          /\ Return
          /\ UNCHANGED kept
       \/ /\ first # 0
          /\ kept' = [kept EXCEPT ![file] = fd[file]]
          /\ Fail
          /\ UNCHANGED fd
    /\ UNCHANGED <<store, root, cwd, formatted>>

Stopped == ~Running /\ UNCHANGED vars

Next ==
    \/ BootCall \/ ProgramCall
    \/ WalkEmpty \/ WalkStops \/ WalkMissing \/ WalkLink \/ WalkOn
    \/ OpenExisting \/ OpenMissing \/ OpenCreates
    \/ Opens \/ Closes \/ Chdir \/ Chroot \/ Mkdev \/ Mount \/ Execve
    \/ \E f \in DOMAIN fd : Close(f) \/ fchdir(f)
    \/ Stopped

Spec == Init /\ [][Next]_vars

-----------------------------------------------------------------------------
(* Properties                                                              *)

\* Every inode the file systems ever made is the one that its directory and
\* name lead to: there are never two inodes for one entry, so that locks and
\* mounts on it are seen by everyone, unless its directory was mounted on, or a
\* link of such a directory led to a file made in it under the link's name.
OneInodePerEntry ==
    \A i \in 2 .. Len(inode) :
       \/ inode[i].parent \in hidden
       \/ vfs_dcache_find(inode[i].parent, inode[i].name) = i

\* Between calls the descriptors in use are those the program was given and
\* has not closed, on the files they were opened on, and those execve lost.
DescriptorsKept == Running /\ pc = "idle" => fd = kept

\* bind mounts that lead back to themselves
BindCycle == \E i \in DOMAIN inode : Loops(i, "")

\* The kernel stops in these calls only if the boot found no volume on the
\* disk, bind mounts form a cycle, or the caller's arguments are to blame: the
\* assertion of the cache never fails.
StopsJustified ==
    /\ panic = "boot" => ~formatted
    /\ panic \in {"hang", "deadlock"} => BindCycle
    /\ panic # "dcache"
=============================================================================
