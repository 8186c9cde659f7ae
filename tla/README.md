# aPlus in TLA+

A verification development for the kernel under `src/os`: TLA+ modules translated
from the C code, TLC models of small instances, and TLAPS proofs for every value
of the constants. `PROJECT.json` lists the components, the runs, the map from
definitions to source lines, the hazards, the findings and the theorems.

Paths below are relative to `src/os`.

## 1. The system

aPlus is a hobby kernel for x86. This is what its code does today, which is less
than its README announces, and decides what can happen concurrently:

* The boot CPU runs `kmain`: memory, interrupts, the other CPUs, the scheduler, a
  tmpfs root, the modules (drivers), the root volume, and then one program, which
  it executes in its own core task with `sys_execve`.
* On i386 the other CPUs are started; each ends in an idle loop. On x86_64 they
  are not started.
* Only core tasks are ever put in the run queue. The `sys_clone` that enqueued a
  task is under `#if 0`; the live one creates a task that nothing runs. So one
  task makes all the system calls, and *two concurrent system calls cannot happen*.
* Drivers are called by `kmain` with interrupts on, by the program with interrupts
  off. Device interrupts go to the boot CPU.
* `DEBUG_ASSERT` and `kpanic` stop the machine. In the modules a failed assertion
  sets `panic` (or a program counter) and nothing happens after it.

### Inventory

| Part | State | Operations | What is hard about it |
|---|---|---|---|
| Ring buffer, `kernel/utils/ringbuffer.c` | buffer, head, tail, full, lock | write, read, reset, available | calls of several CPUs; a write that laps the ring |
| Page allocator, `kernel/mm/pmm.c` | bitmap, lock, `memory.used` | init/claim, alloc from either end, free | scan and mark under a lock, counter outside it; exhaustion |
| SMP boot, `arch/x86/smp.c`, `32/ap.c` | `cpus[]`, `ap_cores` | start a core, `smp_setup` | a core announces itself before its record is complete |
| Scheduler, `kernel/sched.c` | run queue, `sched_lock`, task status, affinity | enqueue, `schedule`, `sched_init` | timers strike inside everything; a loop that must find a task |
| Interrupts, `arch/x86/intr.c`, `apic.c` | `flags`, in-service bit | `x86_isr_handler`, end of interrupt | flags written by two CPUs; unacknowledged interrupts |
| AHCI, `drivers/platform/pc/block/ahci` | slots, port status, one semaphore, one I/O area | identify, capacity, read, write, `irq` | completions against waits; polling and interrupts on the same state |
| Semaphore, `kernel/ipc/semaphore.c` | a counter | wait, post | test and subtract are two steps |
| Block layer, `drivers/dev/block/main.c` | one-block cache | `block_read`, `block_write` | cutting a request into pieces; a driver call that fails half way |
| tmpfs and inode cache, `kernel/fs/tmpfs`, `cache.c` | superblock counters, inodes, data, `next_ino` | mount, creat, read, write, truncate, unlink | size, capacity and counters kept in step over long sequences |
| Address space, page tables, heap, `kernel/mm`, `arch/x86/vmm.c` | page tables, mappings, `__morecore`'s limits | execve, brk, `__morecore` | inclusive and exclusive bounds, rounding in one direction only |
| VFS, dcache, mounts, descriptors, path lookup, `kernel/fs`, `kernel/syscalls` | inodes, cache, `fd[]` | the file system calls | stale cache entries after a mount, failed mounts, bind cycles |
| ext2, `kernel/fs/ext2` | on-disk structures | mount, lookup, read, write, getdents | indirect blocks; cutting a request; 32-bit arithmetic |
| Module loader, device interface, `kernel/init/module.c`, `drivers/dev/interface` | module queue, symbol table, `/dev` | `module_run`, `device_mkdev` | dependency order, half-made nodes |
| Video, PCI, IDE, ACPI, multiboot, APIC set-up | registers | I/O | no state of the kernel's own, or not running |
| lwIP, newlib, dlmalloc, user programs | | | vendored, or not the kernel |

All but the last two rows are modelled, most of them in part; section 7 says what is
not and why, section 8 what is planned.

## 2. Modules

`list.h` is not in the repository, so lists are sequences or sets, as the code in
`src` uses them. Locks are modelled where they protect something: `spinlock_lock`
is a step that is enabled when the lock is free.

**AtomicRing** is the abstract specification of the ring buffer: a bounded queue of
bytes on which each call acts at once. **Ringbuffer** is the code: a call spins on
`rb->lock`, moves byte by byte and unlocks. It implements AtomicRing under the
mapping `AbsQueue`, `AbsResult`, by which a call takes effect when it gets the lock.
The CPUs are those of any client of the library; today's only client is the char
layer.

**Pmm**: `pmm_init` is the initial state (regions that fit, then kernel and
bitmap); `pmm_alloc_block`, `pmm_alloc_block_from_end` and `pmm_free_block` are
sequences of lock, scan, mark, unlock and the unprotected read and write of
`memory.used`, interleaved by any number of CPUs. `ScanUp` is the code's nested loop
over words and bits. Callers only free what they own.

**Sched** composes boot, scheduler and timer interrupt: per CPU a main thread
(`main`) that the CPU's timer (`irq`) interrupts anywhere. The program counters are
the points at which shared state is read or written. Two constants mark what the
code leaves open:

* `LateCores`: may a core still be in `smp_setup` when the boot CPU, which has seen
  it in `ap_cores`, goes on? The code does not exclude it (run `sched_late`); in
  practice the delays of `smp_init` make it unlikely. The other properties are
  checked and proved without it.
* `SplitFlags`: is `cpu->flags |= x` a read and a write for the other CPUs? On x86 it
  is an instruction that is not locked, so yes; `FALSE` gives the properties an
  atomic update would.

`sched_dequeue` and `schedule_yield` have no caller and are left out; whether a
quantum is over is a free choice.

**Ahci** has the slots, the port status, the I/O area, the shared semaphore, the
handler in three steps (read status, post, acknowledge) and the two ways to wait: on
the semaphore during boot, by polling once programs run (`user`). The HBA is
external: it completes issued commands in any order, with or without an error, and
latches one edge.

**BlockDev**: a call is first planned (`HeadPiece`, `TailPiece`, `ReadRuns`,
`WriteRuns`, as the code cuts it) and then executed, one piece of the plan a step; each
is a driver call that may fail, which ends the call, and one for no block at all, or for
a negative number of them, stops the kernel. A driver that reports a failed store may have
stored all of the block, or the beginning of the run. The device is the disk or a partition
(`blkoff`). Calls are serialised by the inode lock of the VFS, so there is one at a
time. The history variable `dirty` is the block whose cached copy the code itself lets
go stale: its store failed, or it was written past the cache. `before` remembers disk
and `dirty` as they were when the call began.

**Tmpfs**: creat, write, truncate, read and unlink with the superblock's counters and
the allocation behind each file. A counter that the code reads and later writes
without a lock is read in one step and written in another. An inode number that the
cache already holds keeps its size (`Loaded`): `tmpfs_creat` resets the allocation only.
Positions and lengths have a sign: `lseek` sets any position and `truncate` any length
(`Pos`), and the code compares them as unsigned numbers (`Above`). A request for a negative
capacity ends in dlmalloc's `kpanic`; a copy that leaves its allocation ends the model
(`"overrun"`), since nothing can be said of a spoilt heap.

**Aspace**: `mapped` is the set of present pages, `mappings` the list of the address
space. `arch_mmap` and `arch_munmap` map and unmap exactly the pages the loops
visit, and fail on the assertions of `x86_map_page` and `x86_unmap_page`.
`sys_execve` is one step (one task, no concurrent change), `ExecveFails` one that
stops after any number of headers. `__morecore` grows the kernel heap in the same
tables. Frames are only counted: Pmm says that they are distinct. The executables are
those a linker makes (`ProgramAssumption`): the pages of two PT_LOAD segments are
disjoint, PT_TLS lies within one, and the image leaves room below the kernel heap.

**Modules**: `module_init` queues the files of the boot loader and runs each;
`module_run` is recursive, and its activations are the variable `stack`. An activation
runs the dependencies that are left (`todo`), links against the one symbol table of all
modules, and calls the module's init, which for drivers makes a node in the `/dev` that
the device interface must have made before. The array of dependencies is one entry too
short (module.c:149): what the store behind it does is a free choice between stopping
and the intended result.

**Files**: inodes, superblocks, the directory cache, descriptors, root and working
directory. A call is many steps: one for each component of its path (`WalkOn`,
`WalkLink`, `WalkMissing`, `WalkStops`), one for what `sys_open` does with the result, and
one for the rest of the call. The boot is a sequence of seven such calls (`BootCalls`),
on a disk with or without a volume; the program's calls follow in any order. `vfs_mount`
is modelled with what each file system leaves in the directory it is mounted on, and bind
mounts as calls back into the VFS with a lock held (`Hops`, `Loops`). **FilePaths** says
what a path means from the volumes and the mounts alone; every inode carries the place it
stood for when it was made (`born`), which is how the two are compared.

**Ext2**: a read or write is cut into first block, last block and whole blocks as in
`ext2_read.c`, and the block of each piece is found through the three levels of pointers
as in `utils/inode.c`. Block numbers and addresses have 32 bits; positions and lengths have
those of a `long`, which are 32 on i686 and 64 on x86_64: `width` is chosen at the start and
decides how a negative position is divided (`Quotient`, `Remainder`), where a length wraps
(`Long`) and when a count of blocks is negative (`Left`). The buffer records which address
each byte came from. `LayoutBlock` is the reference: what the layout of ext2 says. `Finddir`
and `Getdents` search and list a directory.

The MC modules hold the constants that cannot be written in a configuration.
`BufferProofs` (on Ringbuffer and BlockDev), `MemoryProofs` (on Pmm and Aspace),
`SchedProofs`, `AhciProofs`, `TmpfsProofs`, `ModulesProofs`, `FilesProofs` and `Ext2Proofs`
hold the theorems.

Operators whose definition is followed by no use (`LockIgnored`, `StepNoWrap`,
`BrkOnPage`...) are the mutated forms of the definition below them: `PROJECT.json`
names, for each property of each passing run, the mutant that TLC must catch.

## 3. Runs

| Run | Constants | Shows |
|---|---|---|
| `ringbuffer` | 2 CPUs, 2 values, ring of 2 bytes, calls of 1 or 3 bytes | the code implements the atomic queue (`AtomicCalls`), the lock excludes and is released |
| `pmm` | 2 CPUs, 6 pages of which 4 circulate, words of 2 bits | no page is given out twice, none is lost, calls return |
| `sched` | 2 CPUs, torn flags, no late core | the queue is complete before `schedule()` can run, the walk always has a task to stop at, no self-deadlock, one CPU per task, assertions fail in two named windows only, the boot ends, interrupts return |
| `ahci` | 1 CPU, an ATA and an ATAPI port, 2 slots, 2 sectors, errors | one completion per wait, reads and writes exact, every call returns |
| `block` | 5 blocks of 3 bytes, the disk and a partition from block 1, runs of at most 2 blocks | every read exact at every offset and size, cache coherent, writes touch their range only; any driver call may fail |
| `tmpfs` | 1 task, 2 files, 4 bytes of volume, positions and lengths from -3 to 2 | copies of writes stay inside allocations but for two kinds of call, reads give back what was written, numbers are unique, counters never promise too much |
| `aspace` | pages of 2 bytes, 3 executables, heap of up to 6 pages | segments and heap stay mapped, nothing is left behind, accounting exact |
| `modules` | every dependency graph over 3 modules with at most 2 dependencies each, in every order, one missing or twice | inits once and in order, names bound alike, stops with a reason, the loader ends |
| `files` | 2 descriptors, a volume of 3 directories, a file and a link, 17 different calls, 2 mounts after the boot | every path leads where it should, one inode per entry, no descriptor lost, the boot ends with the right root or stops |
| `ext2` | 2 direct blocks, 2 pointers a block, 4 bytes a block, words of 8 bits, longs of 8 and of 12; 6 files, 4 directories | every read and write of bytes of the file exact at every position and length, stops only where known, lookups and listings exact |
| `sched_late` | late cores | **violation** of `SwitchesToComplete` |
| `sched_ticks` | atomic flags | **violation** of `TicksGoOn` |

| Run | Distinct states |   | Run | Distinct states |
|---|---|---|---|---|
| `ringbuffer` | 664,272 | | `tmpfs` | 1,175,419 |
| `sched` | 3,900 | | `aspace` | 6,857 |
| `pmm` | 248,192 | | `modules` | 193,210 |
| `ahci` | 158,048 | | `files` | 427,157 |
| `block` | 142,889 | | `ext2` | 147,920 |

### Bounds, and why they are enough

* *ringbuffer*: three bytes lap a ring of two, so that head passes tail in one call;
  the wrap, the full flag and an interleaved second call all occur. Byte values only
  have to be told apart.
* *pmm*: two bitmap words of which one is full at times, both scan directions, memory
  exhausted while another CPU frees. `UsedMod` makes the counter wrap.
* *sched*: two CPUs have every pairwise race of the code; the proofs cover any number.
* *ahci*: both kinds of device, both ways to wait, every command with and without an
  error; one caller has one command in flight, as in the code today. `MaxPosts`
  only bounds the semaphore after boot, when polling calls post and nobody waits.
* *block*: heads, tails, runs longer and shorter than `BlkMax`, requests past the end.
  The writes include one whole block and two runs with a tail, on the disk, where they
  start at block 0, and on the partition, where they do not.
* *tmpfs*: two files compete for space and nodes, every file grows, shrinks and is
  reallocated (`BufSiz` of two bytes makes that frequent, and leaves a length of -1 and
  of -2 a capacity that is not negative, one of -3 none). `MaxBack` bounds how far below
  zero a position or a length is.
* *aspace*: with two bytes a page, every alignment of start and end occurs. `MaxBrk`
  keeps the program below the kernel's heap, as the number of frames does on a
  machine; `MaxMore` bounds one call of `__morecore`, in units of a page.
* *modules*: three modules have every shape of a loop, a shared dependency and a chain;
  one makes `/dev`, one makes a node in it, one may define a name of the kernel, one may
  use a module it does not list. The proofs cover any number.
* *files*: two descriptors fill up; two mounts are enough to cover a directory whose
  entries are cached, and for a cycle of bind mounts. One path begins with `..` at the
  root of the program. `MaxIno` ends the inodes of tmpfs.
* *ext2*: a file through all three levels, one that ends at and one that ends inside a
  block, an empty one, one with a hole, one behind the addresses of 32 (here 8) bits.
  Positions from a block before the beginning (`Near`) to a block behind the end, lengths
  of more than three blocks and the `Near` largest a `size_t` holds.

Deadlock checking is off where the machine may stop: after a panic, when a CPU has
missed an acknowledgement, and when all memory is allocated.

### Fairness

* *Ringbuffer, Pmm*: a CPU inside a critical section keeps executing (weak fairness of
  its steps). In Pmm a spinning CPU eventually gets a lock that is free again and
  again (strong fairness): a test-and-set gives no such guarantee by itself, the
  assumption is that the bus does not starve a CPU for ever.
* *Sched*: the same, strong fairness also for the code that timers interrupt (a tick
  takes less than a period), and timers keep ticking on CPUs that accept them.
* *Ahci*: the CPU executes, the HBA completes what is issued, and a latched interrupt
  is taken when interrupts are on.
* *Modules*: the loader, one sequential program, keeps executing (weak fairness of its
  steps).
* The remaining modules have no liveness properties.

## 4. Findings

The first two are passages of the repository that the code contradicts, each shown by a
run.

* `sched_late`: a core counts itself in `ap_cores` and is marked enabled before its
  core task is written; the boot CPU can enqueue and run the empty task, where
  `arch_task_switch` asserts an address space.
* `sched_ticks`: an interrupt on a CPU that is not yet marked enabled returns without
  an end of interrupt; that CPU gets no timer interrupt any more. The boot CPU's timer
  runs during all of `smp_init`.

The following have no run of their own. The models do what the code does there, and the
properties allow for it: where a definition is named in brackets it is the exception a
property makes, and without it TLC finds a counterexample in the run.

* AHCI, `main.c:432`: the handler takes the bitmap of interrupting ports, less one, for
  a port number. It is one only for ports 0 and 1, and only when one of them interrupts
  alone. The instance has ports 0 and 1; with `Port = {0, 2}` a call never returns.
* Block layer, `main.c:152`: `block_write` bounds its runs by comparing a block number
  with a count of blocks. Whole blocks are written correctly from block 0 on only;
  elsewhere too few are stored, or the driver is asked for none (`RunsFromZero`). They
  are also written past the one-block cache (`dirty`).
* Address space, `aspace.c:157`: enlarging the heap rounds to pages, shrinking does not.
  After a shrink to the middle of a page, two enlargements map one page twice
  (`aligned`). `aspace_remove_map` unmaps one page more than a page-aligned mapping has,
  so that an `execve` by a program stops the kernel.
* VFS, `vfs.c:90`: `(e = mount(...) < 0)` reports a failed mount as a success. At boot
  the kernel then stops at the bind mount of `/dev`, one call late. A mount does not
  clear the cache: entries of the directory that were looked up before are still found,
  and a file made through a link among them gets a second inode under the link's name
  (`hidden`). Bind mounts in a cycle make the kernel wait for itself (`BindCycle`).
* `059_execve.c:104`: a file that is no program costs a descriptor at each attempt
  (they count as `kept`). `000_read.c:61`, `001_write.c` and `003_close.c` compare
  `fd > TASK_NFD`, which lets the number just behind the table through; the module's
  descriptors are those of the table.
* ext2: beyond the indirect blocks the next index is computed from a block number
  (`utils/inode.c:114`, `InReach`); addresses wrap behind 4 GiB (`utils/block.c:57`,
  `Fits`); holes, and reads at the end of a file whose size is no multiple of the block
  size, stop the kernel; an entry whose name begins the name looked for is taken for it
  (`ext2_finddir.c:79`, `NoPrefix`); getdents moves on by one entry, however many it
  returned.
* ext2 checks neither that a position is in the file, nor that position and length do not
  wrap, nor that a file is not empty, where on i686 the last block of nothing is not the one
  before the first (`Regular`).
* Scheduler: `sched_init` updates `cpu->flags` of the other CPUs, and an update lost in
  between ends in the handler's assertions about its own flag (`Torn`). A tick between the
  enabling of a CPU and the setting of its current task (`smp.c:71`) ends in the store of
  the frame through a null pointer. `AssertionsHold` excepts these two.
* tmpfs: a write at a negative position, and one to a file cut to a negative length, leave
  the allocation (`CopiesInBounds` excepts them); a read from a negative position returns
  bytes of the heap, one that starts behind the end faults; truncate gives no space back,
  and unlinking a file of negative length takes some.
* Path lookup: `..` at the root of a program leads to the root's parent, so that the names
  outside a changed root can be reached (`Up`).

## 5. What is proved

All theorems are about every value of the constants that the named assumptions allow.

**Ring buffer** (`RingSafe`, `FullFlagSound`): `RingInv` is inductive: types with
indices inside the buffer, `rb->lock` held exactly by the CPU in a critical section,
and `full` only when head and tail are equal. The last needs the exclusion: only the
holder moves an index.

That the code implements AtomicRing (`RingIsAtomic`) is proved step by step for every
ring size, number of CPUs and length of a call. A byte stored or taken is a stutter: it
leaves the queue as the holder's call will have made it (`AbsQueue`), because storing
the first byte and then the rest is storing them all at once, also when they lap the
ring, and the same for taking (`TakeHead`). Getting the lock is the step of the abstract
call. Besides `RingInv` this needs that nobody touches the arguments of a call that
still spins (`CallArgs`).

**Page allocator** (`PmmSafe`, `PagesNeverShared`, `PagesNeverLeak`): that no page is
given to two callers is not inductive by itself, since between scan and mark the
chosen page is still clear. `PmmInv` adds that `bitmap_lock` has one owner, which is
where scan and mark happen, and that a chosen page is still clear when it is marked
(`PickStillFree`). The counter `used` needs a type only. Assumed: sizes are natural
numbers, pages and words not empty.

**Virtual memory** (`BrkIsMapped`, `SegmentsStay`, `PagesAreAccounted`, `HeapIsMapped`,
`NeverRemaps`): for every page size of at least two bytes, every set of executables that
satisfy `ProgramAssumption`, any number of frames and any sequence of calls. `AspaceInv`
says what is mapped, page by page. While the kernel runs, the kernel heap is mapped as far
as `__morecore` has handed it out, the mappings are those of the headers followed by the
one for the heap (`Placed`), every page of a PT_LOAD segment is there, and *every mapped
page is one of the kernel heap, of a PT_LOAD segment or of the program's heap*. The last is
stronger than `PagesAccounted`, where any mapping may own a page, and the weaker form is
not inductive: a TLS mapping gets no pages, and its range, rounded to `p_align`, need not
end with that of the segment it lies in, so that a page left behind by a shrink could
hide in it. If every shrink was to a page boundary, the heap ends on one and
all of it is mapped, which is why an enlargement finds its pages free. `aspace_free` and
the loading of the headers are recursive functions over lists; what the k-th step leaves
is proved by induction on k (`FreeFacts`, `Image`'s lemmas). From the format: `BrkStart` is
behind every segment, so nothing that `sys_brk` unmaps belongs to one. The assumptions on
executables are what linkers make, and the kernel does not verify them; `MaxBrk` below the
kernel heap stands for the frames that run out first.

**Boot and scheduler** (`SchedSafe`, `TaskOnOneCpu`, `WalkCanEnd`,
`TimerNeverSelfDeadlocks`, `NoAssertionFails`): for any number of CPUs, torn or atomic
updates of the flags, and `~LateCores`. `NoAssertionFails` says which assertions can fail and
where the CPUs are then: the handler's own in the two windows of section 4, and the one about
a core that does not answer; those of the boot, of `__sched_next` and of `arch_task_switch`
cannot. The argument follows the boot. Cores start one
after the other (`BootOrder`), what `smp_setup` has written is known from where the CPU
is (`RecordSet`), `sched_init` builds the queue in CPU order (`QueueBuilt`), and no CPU
has `SCHED_ENABLED`, in its flags or in a value it is about to write back, before the
queue is complete (`FlagsExact`). So `schedule()` meets a complete queue, the lock is
held by who is inside (`LockExact`), and every current task is the CPU's own except
during a walk, which its own READY task ends (`OwnTask`). `SchedInv` is the conjunction;
there is one lemma per action and conjunct it can disturb.

**AHCI driver** (`DriverSafe`, `ReadsExact`, `WritesDurable`, `CompletionsNeverLost`): for
every set of ports, number of slots, size and stride of the I/O buffers, and any command
failing. A hypothesis is that one CPU makes all calls (`OneCaller`), which is what the
kernel does (section 1) and without which the properties are false (section 6).
`CompletionsMatch` alone is not inductive. `AhciInv` follows one completion through its
stations (`Flying`, `Latched`, `Posted`, `Settled`) and says at which of them it can be for
each place of the caller (`Boots`): so `sem_wait` ends once, and after the command. What
the command moves is tied to it (`Transferred`): until the slot is clear the data to be
written is in the buffer; then the port reports an error, or the data is where it
belongs. Programs poll and never wait on the semaphore (`UserPolls`). Which port the
handler serves is left open, so the proofs do not rest on its arithmetic; liveness does.

**Block layer** (`BlockSafe`, `CacheIsACopy`, `ReadsDeliver`, `WritesStore`): for every
block size, number of blocks, limit on a run, offset and size, and any driver call
failing, whatever part of a failed store reached the disk. One half is about the plan,
without state. Head, whole blocks and tail tile the
request (`Tiling`, from division with remainder); the loops of `block_read` and
`block_write` ask for runs of `blkmax` blocks and one last run (`RunsShape`); and so each
piece moves bytes between their places in the buffer and on the disk, partial blocks come
first and cover all the request has in their block, and the pieces of a read, or of a
write whose runs start at block 0, leave out no byte (`PlanSound`). The other half is the
invariant `BlockInv`: the bytes of the pieces done so far are delivered or stored, no
byte outside the request has changed, and until whole blocks are written the only stale
block is one that was stale when the call began. The exceptions are those of the
properties, no more.

**tmpfs** (`TmpfsSafe`, `WritesInBounds`, `ReadsWhatWasWritten`, `NumbersNeverShared`,
`SpaceNeverOverpromised`): for every number of directories and nodes and every size of the
volume, of a file and of a transfer and positions and lengths of either sign, again with
one caller. As long as every copy stayed in its allocation (`Sound`), `TmpfsInv` says that the cache
holds every number given out and files are numbered in order (`Numbered`), an allocation
covers the size of its file and what was written is in it (`IsNode`, `Kept`), a value that
a call has read is still true when it is used (`Progress`, which is where the one caller is
needed), and the counters with the bytes and nodes in use stay within the volume
(`Charges`). The last is a statement about the number of elements of a set of positions:
a write adds those behind the old end, an unlink takes away those of the file. The other
two states of the invariant are the exceptions: a write at a negative position that is about
to copy (`Strays`), and the kernel that such a write, or one to a file of negative length,
has stopped (`Spoilt`). So `WritesInBounds` is a statement about the code up to the first of
these calls; that they are the only ones is what it proves.

**ext2** (`Ext2Safe`, `Ext2MovesExactly`, `Ext2StopsKnown`, `Ext2ListsExactly`): for every
block size, number of pointers, width of a long, file, directory, position and length.
Assumed of the numbers is that the direct and indirect blocks have fewer than 2^32 bytes,
and of the volume what `VolumeAssumption` says: sizes are of type `off_t`, no block is in a
file twice, names are distinct. `Ext2Inv` follows a request through its pieces. Before the
first, `ib` and `eb` are the blocks of its first and last byte (`Start`); after it the rest
begins with a block, or nothing is left (`Middle`); in the loop n whole blocks are left
between the bytes done in front and the t bytes done behind (`Rest`). The bytes moved so far
came from, or went to, their addresses (`Moved`), no two bytes of a request share one, and
so no piece spoils another (`AddressesDiffer`). The wrapped numbers are right where they
matter: a piece that ends in block 0 leaves `eb` at 2^32 - 1 and the difference at 0, and so
does a request of no bytes at position 0 when a long has more bits than a block number
(`LastOfNothing`). A listing has shown the first entries, one more with each call (`Shown`).

**Module loader** (`ModulesSafe`, `InitsInOrder`, `OneBindingPerName`,
`StopsHaveReasons`): for any finite set of modules, any files and any order. The stack of
activations is a path in the dependencies without repetition, and its modules are those
that are being loaded (`StackInv`): so a module met while it is being loaded closes a
loop. Every dependency of an activation is loaded, still to be run, or running
(`TodoInv`): so all are loaded when none is left. Loaded modules are closed under
dependencies (`LoadedInv`), which is why a driver whose node cannot be made depends on
nobody who makes `/dev`. What was bound is what the table still says (`LinkInv`), because
no entry of the table is ever replaced. `ModulesInv` is the conjunction; the parts hold
while the kernel runs, the properties also when it has stopped.

**Descriptors** (`DescriptorsSafe`): for tables of any size, any volume and any calls,
the table between calls is what the program was given. Inside a call it differs in one
entry, that of the call, which was free before (`FdInv`).

**Directory cache** (`CacheAssertionHolds`): the assertion of `vfs_dcache_add` never
fails, whatever is mounted where. The cache holds inodes only (`CacheInv`), and what a
file system finds after the cache has not is either new or has a directory and a name
that no inode of the cache has. This is the last conjunct of `StopsJustified`.

**Names** (`NamesLead`, `StuckOnlyOnCycles`): for any volume, any calls and any number of
mounts, an inode is the one its directory and name lead to, outside directories in
`hidden`. That needs the whole lookup: when a file is about to be made, the cache has no
inode of that name in the directory where `vfs_creat` will end up (`Fresh`), which was
found out components, links and bind mounts ago. `NameInv` says that every inode but the
root's is in the cache, under a name and an older directory (`Tables`), that two with the
same directory and name are in a hidden one (`Unique`), that links are in directories of
ext2 (`LinksIn`), where no file is made, and what a lookup in progress knows (`CallInv`).
A call through bind mounts follows them from inode to inode (`Hops`): the number of hops is
bounded by the number of inodes, and it ends where it would for any other name, or in a
cycle. So a call that waits for itself, or never returns, has met a cycle of bind mounts,
and a cycle stays one. `FilesInv` is the conjunction with the two parts above.

`Hops`, `aspace_free` and `Image` are recursive functions. The library's induction
theorems with an operator as parameter cannot be used here, but well-founded induction stated with a *set* of
numbers can (`Induct`): each use names the set of the n for which the claim holds.

TLC has checked `AhciInv`, `BlockInv`, `TmpfsInv`, `AspaceInv` and the parts of `FilesInv`
on the instances of the runs as well; of `Ext2Inv` it has checked what the properties say.

**Only model-checked**:

* All liveness: `LockReleased`, `CallsReturn` and the like are outside the prover's reach.
* Of Files, `LookupExact` and `BootRoot`: they compare the walk with the meaning of a path
  (FilePaths), a recursive operator over the components of a path, its links and the mounts,
  for which the prover has no induction. Of `StopsJustified`, that the boot stops only
  without a volume: it rests on where the paths of the seven boot calls lead.

## 6. What the models abstract

* Contents: bytes, sectors and names are small sets; what a page holds is left out.
* In Pmm, bits of a claim beyond the last whole word stand for no block. The claims that
  follow `pmm_init` (ACPI tables, APICs, the start page of the other CPUs) are not steps:
  they are taken to lie in what is claimed at the start or behind the memory, which
  `pmm_claim` does not check.
* In BlockDev the device is `READY` and has a function to write, and the disk and the end of
  a request are below what a `size_t` holds.
* In Tmpfs a file is not read or written once it is unlinked, as nothing can be: `vfs_unlink`
  has no caller. An allocation that fails is one of negative size only.
* In Aspace, page tables' own frames, flags and device mappings are left out, and a call
  that fails is not followed beyond the failed assertion.
* In Sched, what the interrupted code computes apart from boot and scheduling.
* In Modules, sections and relocation. The symbol of index 0, whose name is empty, is left
  out.
* In Files: no name is the beginning of another (Ext2 is about that), links hold no empty
  component and do not lead to each other, the boot has its parameters `root` and `rootfs`,
  nothing is mounted on a device node, no free
  inode of tmpfs means `MaxIno`. The user is 0, `O_DIRECTORY` is left out, and the loop of
  `execve` that closes descriptors marked close-on-exec, since nothing marks one. A call
  that waits for itself is a stop ("hang"). File contents and positions are left out.
* In Ext2, the comparison of a block number with the number of blocks of the volume. The
  blocks of a directory are given: holes in one, and the inode that a lookup loads for each
  entry on a volume of the first revision, are left out; an unused entry counts as one with
  an empty name. No file has 2 GiB or more, the largest `long` of i686.
* Concurrency is what the code can have today: Tmpfs and Ahci are parameterised by the
  CPUs and run with one caller. With two, `InoUnique` and the reads of Ahci fail: the
  functions annotated `__thread_safe` (an empty macro) rely on there being one.

## 7. What is not modelled

* **Reading and writing through a descriptor** (`sys_read`, `sys_write`, `lseek`,
  `truncate`, `ioctl`, `access`): they move the position of a descriptor and call the
  operation of a file system, which BlockDev, Tmpfs and Ext2 model from the VFS call on.
* **Partitions**: `block_inode`'s scan of the partition table, and two devices with
  caches of their own on one disk.
* **Char layer**: its reads and writes are the callers of the ring buffer.
* **Task creation**: the `sys_clone` that enqueues is compiled out, the other creates a
  task that nothing runs.
* **Video, PCI, IDE, ACPI, multiboot, APIC calibration, debug output**: register
  access in a fixed order; the IDE driver returns at once.
* **Stateless devices and system calls** (null, zero, getpid, time...), and about 300
  system calls that return ENOSYS.
* **lwIP, newlib, dlmalloc, user programs**: vendored or not part of the kernel; the
  network is not initialised.
* Functions without a caller: `sched_dequeue`, `schedule_yield`, `vfs_umount`,
  `vfs_unlink`, `vfs_rename`, `vfs_symlink`, `pmm_unclaim`, `aspace_clone`, `ext2_utils_alloc_block`,
  `device_reset`, `device_error`. (tmpfs's unlink is modelled: it is complete in itself.)

## 8. Plan

1. **Composition** of Files with Tmpfs and Ext2: reads and writes through a descriptor,
   with its position, against the contents of the file its path named.
2. **Block devices**: the disk and its partitions at once, each with its own cache.
3. **Proofs**: Files' `LookupExact`, with the meaning of a path as a function of the number
   of components left in place of a recursive operator.
