------------------------------- MODULE Aspace -------------------------------
(***************************************************************************)
(* The memory of the one user task: its page tables (arch/x86/vmm.c and    *)
(* 32/vmm.c), its list of mappings (kernel/mm/aspace.c), the calls that    *)
(* change them, sys_execve and sys_brk, and the kernel heap of __morecore, *)
(* which is mapped in the same tables.  Addresses are numbers; a page is P *)
(* of them.  What a page holds and which frame backs it is left out: Pmm   *)
(* hands out the frames, here only their number counts.                    *)
(***************************************************************************)
EXTENDS Integers, FiniteSets, FiniteSetsExt, Sequences

CONSTANTS P,            \* PAGE_SIZE, in the unit of addresses
          Program,      \* executables: sequences of program headers
          Stack,        \* rlimits[RLIMIT_STACK].rlim_cur
          MaxBrk,       \* bound on the addresses a program asks for
          HeapBase,     \* CONFIG_HEAP_BASE
          Prealloc,     \* CONFIG_HEAP_PREALLOC_SIZE
          MaxHeap,      \* CONFIG_HEAP_SIZE
          MaxMore,      \* bound on the pages dlmalloc asks for at once
          Frames        \* number of page frames

ASSUME AspaceAssumption ==
  /\ P \in Nat \ {0, 1} /\ Frames \in Nat /\ {MaxBrk, MaxHeap, MaxMore} \subseteq Nat
  /\ {HeapBase, Prealloc, Stack} \subseteq Nat \ {0} /\ HeapBase % P = 0 /\ Prealloc % P = 0
  /\ MaxBrk + P =< HeapBase     \* frames run out before a program gets there

VARIABLES mapped,       \* pages whose table entry is present
          size,         \* aspace->size, in pages
          mappings,     \* aspace->mappings
          prog,         \* the program that runs, <<>> before the first execve
          base, page,   \* the static variables of __morecore
          aligned,      \* every sys_brk that shrank the heap asked for a page boundary
          panic         \* what stopped the kernel, or "none"

avars == <<mapped, size, mappings, prog, base, page, aligned, panic>>

PageOf(a) == a \div P
RoundUp(n, unit) == ((n + unit - 1) \div unit) * unit

\* The state after vmm_init: the preallocated heap is mapped.
vmm_init ==
  /\ mapped = PageOf(HeapBase)..PageOf(HeapBase + Prealloc - 1)
  /\ size = Cardinality(mapped)
  /\ mappings = <<>>
  /\ prog = <<>>
  /\ base = HeapBase /\ page = HeapBase + Prealloc
  /\ aligned = TRUE
  /\ panic = "none"

-----------------------------------------------------------------------------
\* Page tables, and the outcome of a sequence of calls on them: the pages, the
\* size and the assertion that failed, after which nothing happens.  A call whose
\* assertion fails leaves out the pages it had already dealt with.
Tables == [mapped |-> mapped, size |-> size, panic |-> panic]

\* arch_mmap maps the page of each end and all between, x86_map_page each in a new
\* frame, unless it is in use.
MapPagesLess(a, length) == PageOf(a)..(PageOf(a + length) - 1)
MapPages(a, length) == PageOf(a)..PageOf(a + length)
arch_mmap(m, a, length) ==
  LET new == MapPages(a, length)
  IN  IF m.panic # "none" THEN m
      ELSE IF length = 0 THEN [m EXCEPT !.panic = "length"]
      ELSE IF new \cap m.mapped # {} THEN [m EXCEPT !.panic = "used"]
      ELSE IF Cardinality(new) + Cardinality(m.mapped) > Frames THEN [m EXCEPT !.panic = "nomem"]
      ELSE [m EXCEPT !.mapped = @ \cup new, !.size = @ + Cardinality(new)]

\* arch_munmap, and x86_unmap_page for each page.
UnmapPagesLess(a, length) == PageOf(a)..(PageOf(a + length) - 1)
UnmapPages(a, length) == PageOf(a)..(PageOf(a + length + P) - 1)
arch_munmap(m, a, length) ==
  LET old == UnmapPages(a, length)
  IN  IF m.panic # "none" THEN m
      ELSE IF length = 0 THEN [m EXCEPT !.panic = "length"]
      ELSE IF ~(old \subseteq m.mapped) THEN [m EXCEPT !.panic = "unmapped"]
      ELSE [m EXCEPT !.mapped = @ \ old, !.size = @ - Cardinality(old)]

SetTables(m) == mapped' = m.mapped /\ size' = m.size /\ panic' = m.panic

-----------------------------------------------------------------------------
\* aspace_enlarge_map rounds up to whole pages.
Increment(n) == RoundUp(n, P)
Enlarged(map, n) == [map EXCEPT !.end = @ + Increment(n)]
\* aspace_shrink_map does not.
Shrunk(map, n) == [map EXCEPT !.end = @ - n]

\* aspace_add_map: a TLS mapping gets no pages, any other as many as it needs.
Added(s, type, start, end) ==
  LET map == [type |-> type, start |-> start, end |-> start]
  IN  IF type = "tls"
      THEN [s EXCEPT !.maps = Append(@, [map EXCEPT !.end = end])]
      ELSE IF end > start
      THEN [maps |-> Append(s.maps, Enlarged(map, end - start)),
            m |-> arch_mmap(s.m, start, Increment(end - start) - 1)]
      ELSE [s EXCEPT !.maps = Append(@, map)]

\* aspace_free removes every mapping, and unmaps those that are not empty.
Removed(m, map) == IF map.end > map.start THEN arch_munmap(m, map.start, map.end - map.start) ELSE m
aspace_free(m) ==
  LET freed[k \in 0..Len(mappings)] == IF k = 0 THEN m ELSE Removed(freed[k - 1], mappings[k])
  IN  freed[Len(mappings)]

-----------------------------------------------------------------------------
\* A program header: the size is rounded to p_align; PT_LOAD goes up to the last
\* byte, PT_TLS to the one behind it.
Size(h) == RoundUp(h.memsz, h.align)
SegmentEnd(h) == IF h.type = "load" THEN h.vaddr + Size(h) - 1 ELSE h.vaddr + Size(h)
Loaded(s, h) == Added(s, h.type, h.vaddr, SegmentEnd(h))
ImageEnd(p) == Max({h.vaddr + Size(h) : h \in {x \in Range(p) : x.type = "load"}})
\* The first page boundary behind the image.
BrkOnPage(p) == PageOf(ImageEnd(p)) * P
BrkStart(p) == PageOf(ImageEnd(p)) * P + P

\* Executables as a linker makes them: segments have pages of their own, TLS is
\* part of one of them, and they end below the kernel heap, with room for the stack.
Pages(h) == PageOf(h.vaddr)..PageOf(h.vaddr + Size(h) - 1)
ASSUME ProgramAssumption ==
  \A p \in Program :
    /\ p \in Seq([type : {"load", "tls"}, vaddr : Nat \ {0}, memsz : Nat \ {0}, align : {1, P}])
    /\ \E k \in DOMAIN p : p[k].type = "load"
    /\ \A k \in DOMAIN p : p[k].type = "load" => p[k].align = P
    /\ \A k \in DOMAIN p : p[k].type = "tls" =>
         \E j \in DOMAIN p :
           /\ p[j].type = "load" /\ p[j].vaddr =< p[k].vaddr
           /\ p[k].vaddr + p[k].memsz =< p[j].vaddr + p[j].memsz
    /\ \A j, k \in DOMAIN p :
         p[j].type = "load" /\ p[k].type = "load" /\ j # k => Pages(p[j]) \cap Pages(p[k]) = {}
    /\ BrkStart(p) + Increment(Stack) < HeapBase

\* The old mappings go, then the segments come in the order of their headers: the
\* first k of them.
Image(p, k) ==
  LET loaded[i \in 0..k] ==
        IF i = 0 THEN [maps |-> <<>>, m |-> aspace_free(Tables)] ELSE Loaded(loaded[i - 1], p[i])
  IN  loaded[k]

\* sys_execve of an executable that can be read: behind the image comes the heap,
\* and sys_brk makes room for the stack at its start.
sys_execve(p) ==
  LET brk == [type |-> "brk", start |-> BrkStart(p), end |-> BrkStart(p)]
      s == Image(p, Len(p))
  IN  /\ panic = "none"
      /\ SetTables(arch_mmap(s.m, brk.end, Increment(Stack) - 1))
      /\ mappings' = Append(s.maps, Enlarged(brk, Stack))
      /\ prog' = p
      /\ UNCHANGED <<base, page, aligned>>

\* A header or a segment that cannot be read, after the first k are loaded: execve
\* returns to kmain, which panics, or to a program whose memory is gone.
ExecveFails(p, k) ==
  LET s == Image(p, k)
  IN  /\ panic = "none"
      /\ SetTables(IF s.m.panic = "none" THEN [s.m EXCEPT !.panic = "read"] ELSE s.m)
      /\ mappings' = s.maps
      /\ UNCHANGED <<prog, base, page, aligned>>

\* sys_brk: returns the end, moves it up by whole pages or down as asked.
AnyBrk(new, brk) == TRUE
NotBelow(new, brk) == new >= brk.start
TheBrk == CHOOSE k \in DOMAIN mappings : mappings[k].type = "brk"
sys_brk(new) ==
  LET brk == mappings[TheBrk]
  IN  /\ panic = "none" /\ prog # <<>>
      /\ NotBelow(new, brk) /\ new # brk.end
      /\ IF new > brk.end
         THEN /\ SetTables(arch_mmap(Tables, brk.end, Increment(new - brk.end) - 1))
              /\ mappings' = [mappings EXCEPT ![TheBrk] = Enlarged(@, new - brk.end)]
         ELSE /\ SetTables(arch_munmap(Tables, new, brk.end - new - 1))
              /\ mappings' = [mappings EXCEPT ![TheBrk] = Shrunk(@, brk.end - new)]
      /\ aligned' = (aligned /\ (new > brk.end \/ new % P = 0))
      /\ UNCHANGED <<prog, base, page>>

\* __morecore(incr); dlmalloc asks for whole pages.  When the preallocation does not
\* cover the request, as much as was asked for is mapped behind it.
MapsNothing(incr) == 0
Extent(incr) == IF incr % P = 0 THEN incr ELSE 0
__morecore(incr) ==
  /\ panic = "none"
  /\ IF base > HeapBase + MaxHeap
     THEN panic' = "heap" /\ UNCHANGED <<mapped, size, base, page>>
     ELSE /\ IF base + incr > page
             THEN SetTables(arch_mmap(Tables, page, Extent(incr) - 1)) /\ page' = page + Extent(incr)
             ELSE UNCHANGED <<mapped, size, panic, page>>
          /\ base' = base + incr
  /\ UNCHANGED <<mappings, prog, aligned>>

AspaceNext ==
  \/ \E p \in Program : sys_execve(p)
  \/ \E p \in Program : \E k \in 0..Len(p) : ExecveFails(p, k)
  \/ \E new \in 1..MaxBrk : sys_brk(new)
  \/ \E n \in 1..MaxMore : __morecore(n * P)

AspaceSpec == vmm_init /\ [][AspaceNext]_avars

-----------------------------------------------------------------------------
Bytes(from, to) == from..(to - 1)
PagesOf(from, to) == {PageOf(a) : a \in Bytes(from, to)}
Runs == panic = "none" /\ prog # <<>>

\* The heap that sys_brk reports is there: as long as a program shrinks it to page
\* boundaries only, each of its bytes is mapped, after any sequence of calls.
BrkMapped == Runs /\ aligned => PagesOf(mappings[TheBrk].start, mappings[TheBrk].end) \subseteq mapped

\* Every byte of every loaded segment stays mapped, whatever sys_brk does next to it.
SegmentsMapped ==
  Runs => \A h \in Range(prog) : PagesOf(h.vaddr, h.vaddr + h.memsz) \subseteq mapped

\* No page is left behind: what is mapped belongs to a mapping or to the kernel heap,
\* and aspace->size, which every map and unmap adjusts, counts it.
PagesAccounted ==
  panic = "none" =>
    /\ mapped \subseteq PagesOf(HeapBase, page)
         \cup UNION {PagesOf(mappings[k].start, mappings[k].end) : k \in DOMAIN mappings}
    /\ size = Cardinality(mapped)

\* What __morecore has handed out is mapped.
HeapMapped == panic = "none" => PagesOf(HeapBase, base) \subseteq mapped

\* x86_map_page asserts "Page already used, unmap first": it holds for programs that
\* shrink their heap to page boundaries only, and for what __morecore adds.
AlignedNeverRemaps == aligned => panic # "used"
=============================================================================
