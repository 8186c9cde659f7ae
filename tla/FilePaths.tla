----------------------------- MODULE FilePaths ------------------------------
(***************************************************************************)
(* What a path means: the volumes, what is mounted where, and nothing else *)
(* (no cache, no operations that mounts exchange, no bind mount that calls *)
(* back into the VFS). The calls of Files must come to the same places.    *)
(***************************************************************************)
EXTENDS Files

Nowhere == <<0, 0>>

Volume(p) == p[1]

IsVolumeRoot(p) == Volume(p) # 0 /\ p = <<Volume(p),
    IF sb[Volume(p)].fs = "ext2" THEN 2 ELSE 0>>

\* the directory a place is in; that of a volume is the one it is mounted on
Base(p) == IF IsVolumeRoot(p) THEN inode[sb[Volume(p)].root].born ELSE p

OnExt2(p) == Volume(p) # 0 /\ sb[Volume(p)].fs = "ext2"

Parents(p) ==
    IF OnExt2(p)
      THEN {<<Volume(p), d>> : d \in {x \in DOMAIN Entries : p[2] \in Range(Entries[x])}}
      ELSE {m.in : m \in {x \in made : x.place = p}}

\* "..": the directory a place is in, for the root of a process as for any other. This
\* is what the code gives, and not what chroot promises elsewhere: the root of a process
\* has a parent, and ".." leads out of it.
Up(p) == IF Parents(p) = {} THEN Nowhere ELSE Base(CHOOSE q \in Parents(p) : TRUE)

Children(p, n) ==
    IF OnExt2(p)
      THEN IF p[2] \in DOMAIN Entries /\ n \in DOMAIN Entries[p[2]]
             THEN {<<Volume(p), Entries[p[2]][n]>>} ELSE {}
      ELSE {m.place : m \in {x \in made : x.in = p /\ x.name = n}}

Down(p, n) ==
    CASE n = "."  -> p
      [] n = ".." -> Up(p)
      [] OTHER    -> LET c == Children(Front(p), n)
                     IN  IF c = {} THEN Nowhere ELSE CHOOSE q \in c : TRUE

RECURSIVE Names(_, _)
Names(p, names) ==
    IF p = Nowhere \/ names \in {<< >>, <<"">>} THEN p
    ELSE LET q == Down(p, Head(names))
         IN  IF q # Nowhere /\ OnExt2(q) /\ q[2] \in DOMAIN Target
               THEN Names(IF Target[q[2]].abs THEN inode[root].born ELSE Up(q),
                          Target[q[2]].names \o Tail(names))
               ELSE Names(q, Tail(names))

Born(i) == IF i = 0 THEN Nowhere ELSE inode[i].born

-----------------------------------------------------------------------------
(* Properties                                                              *)

\* A path leads to what the volumes and the mounts say it names, or nowhere
\* if they say so, through the cache, bind mounts, links and "..", as long as
\* no directory on the way was mounted on while the cache held entries of it.
LookupExact ==
    pc = "found" /\ look.clean =>
       LET path == IF first = 0 THEN req.path ELSE req.dev
       IN  Born(look.at) = Names(Born(IF path.abs THEN root ELSE cwd), path.names)

\* The first program runs only with the disk's volume as its root and the
\* kernel's devices in /dev, although a failed mount is reported as done.
BootRoot ==
    Booted =>
       /\ Len(sb) >= 3
       /\ sb[2].fs = "ext2" /\ sb[2].root = root
       /\ Len(sb) = 3 =>
            Names(Born(root), <<"dev", "disk">>)
              = Born(vfs_dcache_find(vfs_dcache_find(1, "dev"), "disk"))
=============================================================================
