------------------------------- MODULE Sched --------------------------------
(***************************************************************************)
(* The boot of the CPUs and the scheduler: smp_init, ap_main and smp_setup *)
(* (arch/x86), sched_init and schedule (kernel/sched.c), and the timer     *)
(* interrupt of x86_isr_handler that drives schedule() on every CPU.       *)
(* Each CPU has a main thread (boot code, then the kernel or cmain's idle  *)
(* loop) that its own timer interrupts; CPUs interleave freely.            *)
(*                                                                         *)
(* The tasks are the core tasks, one per CPU and named by it: nothing else *)
(* is ever enqueued, since the sys_clone that did so is compiled out.      *)
(* The model starts when apic_init has enabled the interrupts of the boot  *)
(* CPU, which is CPU 0.                                                    *)
(***************************************************************************)
EXTENDS Integers

CONSTANTS N,           \* number of CPUs (mbd->cpu.max_cores)
          LateCores,   \* may a core still be in smp_setup when the boot CPU goes on?
          SplitFlags   \* is `flags |= bit' a read and a write to the other CPUs?

ASSUME NAssumption == N \in Nat \ {0}
ASSUME BoundaryAssumption == LateCores \in BOOLEAN /\ SplitFlags \in BOOLEAN

Cpu == 0..(N - 1)
Bsp == 0
Null == -1
Free == Null
Flag == {"ENABLED", "SCHED_ENABLED", "INTERRUPT"}

VARIABLES flags,        \* cpus[c].flags
          status,       \* core task: READY (which is 0) or RUNNING
          allowed,      \* core task: the CPUs whose bit is clear in affinity
          aspace,       \* the core tasks whose aspace is set
          next,         \* core task: task->next
          sched_queue,
          current,      \* cpus[c].task.current
          lock,         \* sched_lock: Free, or the CPU that holds it
          main,         \* where the main thread of each CPU is
          i,            \* the boot CPU's loop counter
          irq,          \* where the timer interrupt of each CPU is, or "none"
          inService,    \* local APIC: an interrupt is not acknowledged yet
          rmw,          \* what a read-modify-write of flags has read
          panic         \* what stopped the kernel, or "none"

boot == <<aspace, main, i>>
tasks == <<status, allowed, next, sched_queue, current>>
vars == <<flags, status, allowed, aspace, next, sched_queue, current, lock, main, i,
          irq, inService, rmw, panic>>

InSetup == {"enable", "current", "memset", "affinity", "aspace"}
Main == {"smp_init", "wait", "off", "ap_main", "cmain", "enqueue", "next", "push",
         "unlock", "flag", "flag_write", "kernel"} \cup InSetup
Irq == {"none", "set", "tick", "spin", "sched", "walk", "unlock", "eoi", "clear", "clear_write"}

\* cpus[] is zeroed memory: READY, allowed everywhere, no aspace, in no queue, and
\* no CPU has a current task.
Init ==
  /\ flags = [c \in Cpu |-> {}]
  /\ status = [c \in Cpu |-> "READY"]
  /\ allowed = [c \in Cpu |-> Cpu]
  /\ aspace = {}
  /\ next = [c \in Cpu |-> Null]
  /\ sched_queue = Null
  /\ current = [c \in Cpu |-> Null]
  /\ lock = Free
  /\ main = [c \in Cpu |-> IF c = Bsp THEN "smp_init" ELSE "off"]
  /\ i = 1
  /\ irq = [c \in Cpu |-> "none"]
  /\ inService = [c \in Cpu |-> FALSE]
  /\ rmw = [c \in Cpu |-> {}]
  /\ panic = "none"

Runs == panic = "none"
\* The main thread of c is at label l and not interrupted.
At(c, l) == Runs /\ irq[c] = "none" /\ main[c] = l
Goto(c, l) == main' = [main EXCEPT ![c] = l]
InIrq(c, l) == Runs /\ irq[c] = l
IrqGoto(c, l) == irq' = [irq EXCEPT ![c] = l]
Enabled(c) == "ENABLED" \in flags[c]

-----------------------------------------------------------------------------
\* smp_init: INIT and SIPI to the next core, or smp_setup(1) after the last.
StartCore ==
  /\ At(Bsp, "smp_init")
  /\ main' = IF i < N THEN [main EXCEPT ![Bsp] = "wait", ![i] = "ap_main"]
                      ELSE [main EXCEPT ![Bsp] = "enable"]
  /\ UNCHANGED <<flags, tasks, aspace, lock, i, irq, inService, rmw, panic>>

\* ap_check sees ap_cores; without LateCores the core is in cmain by then.
Answered(c) == IF LateCores THEN main[c] # "ap_main" ELSE main[c] = "cmain"
CoreStarted ==
  /\ At(Bsp, "wait") /\ Answered(i)
  /\ i' = i + 1
  /\ Goto(Bsp, "smp_init")
  /\ UNCHANGED <<flags, tasks, aspace, lock, irq, inService, rmw, panic>>

\* ... or has not, after two SIPIs and 3.5 seconds.
CoreMissing ==
  /\ At(Bsp, "wait") /\ main[i] = "ap_main"
  /\ panic' = "smp.c:180"
  /\ UNCHANGED <<flags, tasks, boot, lock, irq, inService, rmw>>

\* ap_main: descriptor tables, sti, apic_enable (the timer runs), ap_cores++.
ap_main(c) ==
  /\ At(c, "ap_main")
  /\ Goto(c, "enable")
  /\ UNCHANGED <<flags, tasks, aspace, lock, i, irq, inService, rmw, panic>>

\* smp_setup on the CPU itself, whose timer is running: the flags ...
Enable(c) ==
  /\ At(c, "enable")
  /\ panic' = IF Enabled(c) THEN "smp.c:62" ELSE panic
  /\ flags' = [flags EXCEPT ![c] = {"ENABLED"}]
  /\ Goto(c, "current")
  /\ UNCHANGED <<tasks, aspace, lock, i, irq, inService, rmw>>
\* ... after them the current task ...
SetCurrent(c) ==
  /\ At(c, "current")
  /\ current' = [current EXCEPT ![c] = c]
  /\ Goto(c, "memset")
  /\ UNCHANGED <<flags, status, allowed, next, sched_queue, aspace, lock, i, irq, inService, rmw, panic>>
\* ... the core task cleared ...
Memset(c) ==
  /\ At(c, "memset")
  /\ status' = [status EXCEPT ![c] = "READY"]
  /\ allowed' = [allowed EXCEPT ![c] = Cpu]
  /\ next' = [next EXCEPT ![c] = Null]
  /\ aspace' = aspace \ {c}
  /\ Goto(c, "affinity")
  /\ UNCHANGED <<flags, sched_queue, current, lock, i, irq, inService, rmw, panic>>
\* ... bound to its CPU by affinity = ~(1 << id) ...
AnyAffinity(c) == Cpu
CoreAffinity(c) == {c}
Affinity(c) ==
  /\ At(c, "affinity")
  /\ status' = [status EXCEPT ![c] = "READY"]
  /\ allowed' = [allowed EXCEPT ![c] = CoreAffinity(c)]
  /\ Goto(c, "aspace")
  /\ UNCHANGED <<flags, next, sched_queue, current, aspace, lock, i, irq, inService, rmw, panic>>
\* ... its address space and next; then cmain, or back to the boot CPU's kmain
\* and sched_init, which initialises sched_lock.
Aspace(c) ==
  /\ At(c, "aspace")
  /\ aspace' = aspace \cup {c}
  /\ next' = [next EXCEPT ![c] = Null]
  /\ IF c = Bsp THEN Goto(c, "enqueue") /\ lock' = Free /\ i' = 0
                ELSE Goto(c, "cmain") /\ UNCHANGED <<lock, i>>
  /\ UNCHANGED <<flags, status, allowed, sched_queue, current, irq, inService, rmw, panic>>

-----------------------------------------------------------------------------
\* sched_init: foreach_cpu skips a CPU that is not enabled, and ends.
EnqueueSkip ==
  /\ At(Bsp, "enqueue")
  /\ IF i < N THEN ~Enabled(i) /\ i' = i + 1 /\ UNCHANGED main
              ELSE i' = 0 /\ Goto(Bsp, "flag")
  /\ UNCHANGED <<flags, tasks, aspace, lock, irq, inService, rmw, panic>>

\* sched_enqueue of CPU i's core task.  The timer may interrupt it anywhere.
LockIsFree == lock = Free
EnqueueLock ==
  /\ At(Bsp, "enqueue") /\ i < N /\ Enabled(i) /\ LockIsFree
  /\ lock' = Bsp
  /\ Goto(Bsp, "next")
  /\ UNCHANGED <<flags, tasks, aspace, i, irq, inService, rmw, panic>>
NextOfNew == sched_queue
EnqueueNext ==
  /\ At(Bsp, "next")
  /\ next' = [next EXCEPT ![i] = NextOfNew]
  /\ Goto(Bsp, "push")
  /\ UNCHANGED <<flags, status, allowed, sched_queue, current, aspace, lock, i, irq, inService, rmw, panic>>
EnqueuePush ==
  /\ At(Bsp, "push")
  /\ sched_queue' = i
  /\ Goto(Bsp, "unlock")
  /\ UNCHANGED <<flags, status, allowed, next, current, aspace, lock, i, irq, inService, rmw, panic>>
EnqueueUnlock ==
  /\ At(Bsp, "unlock")
  /\ lock' = Free
  /\ i' = i + 1
  /\ Goto(Bsp, "enqueue")
  /\ UNCHANGED <<flags, tasks, aspace, irq, inService, rmw, panic>>

\* The second loop: cpu->flags |= CPU_FLAGS_SCHED_ENABLED on every enabled CPU.
FlagSkip ==
  /\ At(Bsp, "flag")
  /\ IF i < N THEN ~Enabled(i) /\ i' = i + 1 /\ UNCHANGED main
              ELSE Goto(Bsp, "kernel") /\ UNCHANGED i
  /\ UNCHANGED <<flags, tasks, aspace, lock, irq, inService, rmw, panic>>
FlagSet ==
  /\ At(Bsp, "flag") /\ i < N /\ Enabled(i)
  /\ IF SplitFlags
       THEN /\ rmw' = [rmw EXCEPT ![Bsp] = flags[i]]
            /\ Goto(Bsp, "flag_write")
            /\ UNCHANGED <<flags, i>>
       ELSE /\ flags' = [flags EXCEPT ![i] = @ \cup {"SCHED_ENABLED"}]
            /\ i' = i + 1
            /\ UNCHANGED <<rmw, main>>
  /\ UNCHANGED <<tasks, aspace, lock, irq, inService, panic>>
FlagWrite ==
  /\ At(Bsp, "flag_write")
  /\ flags' = [flags EXCEPT ![i] = rmw[Bsp] \cup {"SCHED_ENABLED"}]
  /\ i' = i + 1
  /\ Goto(Bsp, "flag")
  /\ UNCHANGED <<tasks, aspace, lock, irq, inService, rmw, panic>>

-----------------------------------------------------------------------------
\* The local APIC delivers vector 0x20, between two instructions and only when
\* the last one has been acknowledged.  x86_isr_handler returns at once, without
\* an acknowledgement, when this CPU is not enabled yet.
Timer(c) ==
  /\ Runs /\ irq[c] = "none" /\ ~inService[c]
  /\ main[c] \notin {"off", "ap_main", "flag_write"}
  /\ inService' = [inService EXCEPT ![c] = TRUE]
  /\ IF ~Enabled(c)
       THEN UNCHANGED <<flags, irq, rmw, panic>>
       ELSE IF "INTERRUPT" \in flags[c]
       THEN panic' = "intr.c:364" /\ UNCHANGED <<flags, irq, rmw>>
       ELSE /\ IF SplitFlags
                 THEN /\ rmw' = [rmw EXCEPT ![c] = flags[c]]
                      /\ IrqGoto(c, "set") /\ UNCHANGED flags
                 ELSE /\ flags' = [flags EXCEPT ![c] = @ \cup {"INTERRUPT"}]
                      /\ IrqGoto(c, "tick") /\ UNCHANGED rmw
            /\ UNCHANGED panic
  /\ UNCHANGED <<tasks, boot, lock>>
SetWrite(c) ==
  /\ InIrq(c, "set")
  /\ flags' = [flags EXCEPT ![c] = rmw[c] \cup {"INTERRUPT"}]
  /\ IrqGoto(c, "tick")
  /\ UNCHANGED <<tasks, boot, lock, inService, rmw, panic>>

\* The frame is stored in the current task: through NULL, which is not mapped, when
\* there is none yet.  schedule() runs only when CPU_FLAGS_SCHED_ENABLED is set.
AlwaysSchedules(c) == TRUE
Schedules(c) == "SCHED_ENABLED" \in flags[c]
Tick(c) ==
  /\ InIrq(c, "tick")
  /\ IF current[c] = Null
       THEN panic' = "intr.c:367" /\ UNCHANGED irq
       ELSE IrqGoto(c, IF Schedules(c) THEN "spin" ELSE "eoi") /\ UNCHANGED panic
  /\ UNCHANGED <<flags, tasks, boot, lock, inService, rmw>>

SchedLock(c) ==
  /\ InIrq(c, "spin") /\ LockIsFree
  /\ lock' = c
  /\ IrqGoto(c, "sched")
  /\ UNCHANGED <<flags, tasks, boot, inService, rmw, panic>>

\* The run time in ms is no multiple of 20 - priority: the task goes on.
QuantumLeft(c) ==
  /\ InIrq(c, "sched")
  /\ IrqGoto(c, "unlock")
  /\ UNCHANGED <<flags, tasks, boot, lock, inService, rmw, panic>>
StaysRunning(t) == status[t]
Preempted(t) == IF status[t] = "RUNNING" THEN "READY" ELSE status[t]
QuantumOver(c) ==
  /\ InIrq(c, "sched")
  /\ status' = [status EXCEPT ![current[c]] = Preempted(current[c])]
  /\ IrqGoto(c, "walk")
  /\ UNCHANGED <<flags, allowed, next, sched_queue, current, boot, lock, inService, rmw, panic>>

\* One turn of __sched_next; at a READY task that may run here, arch_task_switch.
MayRun(t, c) == c \in allowed[t]
Follow(t) == IF next[t] = Null THEN sched_queue ELSE next[t]
Walk(c) ==
  LET t == Follow(current[c])
      stops == MayRun(t, c) /\ status[t] = "READY"
  IN  /\ InIrq(c, "walk")
      /\ IF t = Null
           THEN panic' = "sched.c:57" /\ UNCHANGED <<current, status, irq>>
           ELSE /\ current' = [current EXCEPT ![c] = t]
                /\ IF stops
                     THEN /\ status' = [status EXCEPT ![t] = "RUNNING"]
                          /\ panic' = IF t \in aspace THEN panic ELSE "task.c:141"
                          /\ IrqGoto(c, "unlock")
                     ELSE UNCHANGED <<status, panic, irq>>
      /\ UNCHANGED <<flags, allowed, next, sched_queue, boot, lock, inService, rmw>>

SchedUnlock(c) ==
  /\ InIrq(c, "unlock")
  /\ lock' = Free
  /\ IrqGoto(c, "eoi")
  /\ UNCHANGED <<flags, tasks, boot, inService, rmw, panic>>

NoEoi(c) == inService
apic_eoi(c) == [inService EXCEPT ![c] = FALSE]
Eoi(c) ==
  /\ InIrq(c, "eoi")
  /\ inService' = apic_eoi(c)
  /\ IrqGoto(c, "clear")
  /\ UNCHANGED <<flags, tasks, boot, lock, rmw, panic>>

\* The flag is cleared and the interrupt returns.
FlagCleared(c) == flags[c] \ {"INTERRUPT"}
Clear(c) ==
  /\ InIrq(c, "clear")
  /\ IF "INTERRUPT" \notin flags[c]
       THEN panic' = "intr.c:429" /\ UNCHANGED <<flags, irq, rmw>>
       ELSE /\ IF SplitFlags
                 THEN rmw' = [rmw EXCEPT ![c] = flags[c]] /\ IrqGoto(c, "clear_write") /\ UNCHANGED flags
                 ELSE flags' = [flags EXCEPT ![c] = FlagCleared(c)] /\ IrqGoto(c, "none") /\ UNCHANGED rmw
            /\ UNCHANGED panic
  /\ UNCHANGED <<tasks, boot, lock, inService>>
ClearWrite(c) ==
  /\ InIrq(c, "clear_write")
  /\ flags' = [flags EXCEPT ![c] = rmw[c] \ {"INTERRUPT"}]
  /\ IrqGoto(c, "none")
  /\ UNCHANGED <<tasks, boot, lock, inService, rmw, panic>>

-----------------------------------------------------------------------------
\* The main thread of a CPU until it has booted.
Setup(c) == ap_main(c) \/ Enable(c) \/ SetCurrent(c) \/ Memset(c) \/ Affinity(c) \/ Aspace(c)
sched_init ==
  \/ EnqueueSkip \/ EnqueueNext \/ EnqueuePush \/ EnqueueUnlock
  \/ FlagSkip \/ FlagSet \/ FlagWrite
BootStep == StartCore \/ CoreStarted \/ sched_init
\* The interrupt handler but for the spin on sched_lock.
Handler(c) ==
  \/ SetWrite(c) \/ Tick(c) \/ QuantumLeft(c) \/ QuantumOver(c) \/ Walk(c)
  \/ SchedUnlock(c) \/ Eoi(c) \/ Clear(c) \/ ClearWrite(c)

Next ==
  \/ BootStep \/ CoreMissing \/ EnqueueLock
  \/ \E c \in Cpu : Setup(c) \/ Timer(c) \/ SchedLock(c) \/ Handler(c)

Spec == Init /\ [][Next]_vars

\* A CPU executes the code it is in even though the timer keeps interrupting it
\* (a tick takes less than a period), the timer of a CPU that runs keeps
\* ticking, and the bus grants a spinning CPU the lock now and then.
FairSpec ==
  /\ Spec
  /\ SF_vars(BootStep) /\ SF_vars(EnqueueLock)
  /\ \A c \in Cpu : /\ SF_vars(Setup(c)) /\ WF_vars(Timer(c))
                    /\ WF_vars(Handler(c)) /\ SF_vars(SchedLock(c))

-----------------------------------------------------------------------------
\* Every variable keeps its type.
TypeOK ==
  /\ flags \in [Cpu -> SUBSET Flag]
  /\ status \in [Cpu -> {"READY", "RUNNING"}]
  /\ allowed \in [Cpu -> SUBSET Cpu]
  /\ aspace \in SUBSET Cpu
  /\ next \in [Cpu -> Cpu \cup {Null}]
  /\ sched_queue \in Cpu \cup {Null}
  /\ current \in [Cpu -> Cpu \cup {Null}]
  /\ lock \in Cpu \cup {Free}
  /\ main \in [Cpu -> Main]
  /\ i \in 0..N
  /\ irq \in [Cpu -> Irq]
  /\ inService \in [Cpu -> BOOLEAN]
  /\ rmw \in [Cpu -> SUBSET Flag]
  /\ panic \in {"none", "smp.c:180", "smp.c:62", "intr.c:364", "intr.c:367", "intr.c:429",
               "sched.c:57", "task.c:141"}

\* Where sched_init is when it fills the queue, and once it has.
Queued == {"enqueue", "next", "push", "unlock"}
After == {"flag", "flag_write", "kernel"}

\* CPU_FLAGS_INTERRUPT of c does not tell whether c is in the handler.
Torn(c) == "INTERRUPT" \in flags[c] <=> irq[c] \in {"none", "set"}

\* Wherever the timers strike, no assertion of the boot, of __sched_next or of
\* arch_task_switch fails.  Besides a core that does not answer, two things stop the
\* kernel: a tick between the enabling of its CPU and the setting of its current
\* task (smp.c:71-74), which the handler stores its frame in; and the handler's
\* assertions about its own flag, when the flag was lost or came back in a torn
\* update, which happens on no CPU but those whose flags sched_init updates for them.
AssertionsHold ==
  /\ panic \in {"none", "smp.c:180", "intr.c:364", "intr.c:367", "intr.c:429"}
  /\ panic = "intr.c:367" => \E c \in Cpu : main[c] = "current" /\ irq[c] = "tick"
  /\ panic \in {"intr.c:364", "intr.c:429"} => \E c \in Cpu : Torn(c)
  /\ \A c \in Cpu : Torn(c) => SplitFlags /\ c # Bsp /\ main[Bsp] \in After

\* arch_task_switch asserts that the task to switch to has an address space.
SwitchesToComplete == panic # "task.c:141"

\* Between two walks no task is the current task of two CPUs: a CPU inside
\* __sched_next passes over the tasks of the others and never keeps one.
OneCpuPerTask ==
  \A c, d \in Cpu : c # d /\ "walk" \notin {irq[c], irq[d]} =>
    current[c] # current[d] \/ current[c] = Null

\* When the first CPU may schedule, the queue that sched_init has built holds the
\* core task of every CPU, each once.
QueueExact ==
  main[Bsp] \in After =>
    /\ sched_queue = N - 1
    /\ \A c \in Cpu : next[c] = c - 1    \* Null for CPU 0

\* The loop of __sched_next, which holds sched_lock with interrupts off, always
\* has a task to stop at: the CPU's own, queued and READY.
WalkHasTarget ==
  \A c \in Cpu : irq[c] = "walk" =>
    QueueExact /\ main[Bsp] \in After
    /\ MayRun(c, c) /\ status[c] = "READY"

\* sched_enqueue takes sched_lock with interrupts on, and yet the timer of the
\* same CPU never spins for the lock that the code it interrupted holds.
NoSelfDeadlock == \A c \in Cpu : irq[c] = "spin" => lock # c

-----------------------------------------------------------------------------
\* The pieces of the inductive invariant of a boot without late cores.
InSchedule == {"spin", "sched", "walk", "unlock"}

\* Cores boot one after the other, and the boot CPU after them.
BootOrder ==
  /\ main[Bsp] \in {"smp_init", "wait"} \cup InSetup \cup Queued \cup After
  /\ main[Bsp] = "smp_init" => i \in 1..N
  /\ main[Bsp] = "wait" => i \in 1..(N - 1)
  /\ main[Bsp] \in {"next", "push", "unlock", "flag_write"} => i < N
  /\ \A c \in Cpu \ {Bsp} :
       /\ main[c] \in {"off", "ap_main", "cmain"} \cup InSetup
       /\ main[Bsp] \notin {"smp_init", "wait"} \/ c < i => main[c] = "cmain"
       /\ (main[Bsp] = "smp_init" /\ c >= i) \/ (main[Bsp] = "wait" /\ c > i) => main[c] = "off"

\* What smp_setup has written of CPU c's record by the time c is there.
RecordSet ==
  \A c \in Cpu :
    /\ Enabled(c) <=> main[c] \notin {"off", "ap_main", "smp_init", "wait", "enable"}
    /\ main[c] \in {"aspace", "cmain"} \cup Queued \cup After => allowed[c] = {c}
    /\ main[c] \in {"cmain"} \cup Queued \cup After => c \in aspace

\* The scheduler is entered only after sched_init, also through a torn update.
FlagsExact ==
  /\ \A c \in Cpu :
       /\ "SCHED_ENABLED" \in flags[c] \/ irq[c] \in InSchedule => main[Bsp] \in After
       /\ irq[c] # "none" => Enabled(c)
       /\ irq[c] \in {"set", "clear_write"} =>
            "ENABLED" \in rmw[c] /\ ("SCHED_ENABLED" \in rmw[c] => main[Bsp] \in After)
       /\ irq[c] = "set" => "INTERRUPT" \notin rmw[c]
       /\ ~SplitFlags => irq[c] \notin {"set", "clear_write"}
  /\ main[Bsp] = "flag_write" =>
       /\ SplitFlags /\ irq[Bsp] = "none" /\ "ENABLED" \in rmw[Bsp]
       /\ i = Bsp => "INTERRUPT" \notin rmw[Bsp]

\* The lock's holder is in schedule(), or is the boot CPU in sched_enqueue.
LockExact ==
  \A c \in Cpu : lock = c <=> \/ irq[c] \in {"sched", "walk", "unlock"}
                              \/ c = Bsp /\ main[Bsp] \in {"next", "push", "unlock"}

\* sched_init pushes CPU 0, 1, ...: the task before c's in the queue is c - 1's.
QueueBuilt ==
  /\ main[Bsp] \notin Queued \cup After => sched_queue = Null
  /\ main[Bsp] \in {"enqueue", "next", "push"} => sched_queue = i - 1
  /\ main[Bsp] = "unlock" => sched_queue = i
  /\ main[Bsp] \in Queued => \A c \in Cpu : c < i => next[c] = c - 1
  /\ main[Bsp] \in {"push", "unlock"} => next[i] = i - 1
  /\ QueueExact

\* A CPU's current task is its own, once it is set, but for the walk, which starts
\* from a READY task.  Without one the handler gets no further than its first store.
NoTask == {"off", "ap_main", "smp_init", "wait", "enable", "current"}
OwnTask ==
  \A c \in Cpu : /\ main[c] \in NoTask => current[c] = Null /\ irq[c] \in {"none", "set", "tick"}
                 /\ main[c] \notin NoTask => current[c] # Null
                 /\ main[c] \notin NoTask /\ irq[c] # "walk" => current[c] = c
                 /\ irq[c] = "walk" => status[c] = "READY"

\* The invariant that makes the properties above inductive.
SchedInv ==
  TypeOK /\ BootOrder /\ RecordSet /\ FlagsExact /\ LockExact /\ QueueBuilt /\ OwnTask
  /\ AssertionsHold

\* Whatever the timers do, the boot ends: sched_init gets sched_lock each time.
BootEnds == <>(main[Bsp] = "kernel" \/ ~Runs)

\* A timer interrupt that x86_isr_handler has begun to handle returns, acknowledged:
\* nobody waits for sched_lock, or walks the queue, for ever.
InterruptsReturn ==
  \A c \in Cpu : irq[c] # "none" ~> (irq[c] = "none" /\ ~inService[c]) \/ ~Runs

\* Every CPU that has booted goes on to be interrupted by its timer, which is
\* what multitasking on it depends on.
TicksGoOn == \A c \in Cpu : []<>(irq[c] # "none" \/ ~Runs)
=============================================================================
