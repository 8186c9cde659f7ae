----------------------------- MODULE SchedProofs ----------------------------
(***************************************************************************)
(* Proofs about Sched for every number of CPUs.  The boot is the one in    *)
(* which smp_init waits until a core is in cmain (~LateCores): with a late *)
(* core the properties fail, which the run sched_late shows.  SplitFlags   *)
(* is left open.                                                           *)
(*                                                                         *)
(* The inductive invariant is SchedInv.  The properties hang together in   *)
(* one argument: cores boot before the boot CPU's smp_setup (BootOrder), so *)
(* their records are complete (RecordSet) when sched_init walks the CPUs   *)
(* and builds the whole queue (QueueBuilt); only then does a flag let      *)
(* schedule() run (FlagsExact), so sched_lock is never contended between   *)
(* sched_enqueue and the timer (LockExact), and the walk of a CPU passes   *)
(* over every task but its own (OwnTask).  A tick that finds no current    *)
(* task stops the kernel in the handler's first store, before schedule().  *)
(***************************************************************************)
EXTENDS Sched, TLAPS

\* The boot CPU is a CPU; Free and Null, which are -1, are none.
LEMMA CpuFacts ==
  Bsp \in Cpu /\ Free \notin Cpu /\ Null \notin Cpu /\ Cpu \subseteq Int
BY NAssumption DEF Bsp, Cpu, Free, Null

\* A free sched_lock means that no CPU is between spinlock_lock and spinlock_unlock.
LEMMA NobodyHolds ==
  ASSUME LockExact, lock = Free
  PROVE  /\ \A d \in Cpu : irq[d] \notin {"sched", "walk", "unlock"}
         /\ main[Bsp] \notin {"next", "push", "unlock"}
<1>1. \A d \in Cpu : lock # d
  BY CpuFacts, Zenon
<1> QED
  BY <1>1, CpuFacts, Zenon DEF LockExact

\* A CPU in __sched_next finds a complete queue of tasks that are each bound to
\* one CPU and have an address space, because sched_init is over by then.
LEMMA WalkFacts ==
  ASSUME SchedInv, NEW c \in Cpu, irq[c] = "walk"
  PROVE  /\ Follow(current[c]) \in Cpu
         /\ \A d \in Cpu : allowed[d] = {d} /\ d \in aspace
         /\ QueueExact /\ main[Bsp] \in After
<1> USE CpuFacts DEF SchedInv
<1>1. main[Bsp] \in After
  BY Zenon DEF FlagsExact, InSchedule
<1>2. QueueExact
  BY Zenon DEF QueueBuilt
<1>3. sched_queue \in Cpu
  BY <1>1, <1>2, NAssumption DEF QueueExact, After, Cpu
<1>4. Follow(current[c]) \in Cpu
  <2>1. current[c] \in Cpu
    BY Zenon DEF OwnTask, TypeOK
  <2> QED
    BY <1>3, <2>1, Zenon DEF Follow, TypeOK
<1>5. \A d \in Cpu : main[d] \in {"cmain"} \cup After
  BY <1>1, Zenon DEF BootOrder, After
<1>6. \A d \in Cpu : allowed[d] = {d} /\ d \in aspace
  BY <1>5, Zenon DEF RecordSet
<1> QED
  BY <1>1, <1>2, <1>4, <1>6, Zenon

\* SchedInv is kept when smp_init signals the next core, or ends with
\* smp_setup(1) of the boot CPU.
LEMMA KeepsStartCore ==
  ASSUME ~LateCores, SchedInv, StartCore
  PROVE  SchedInv'
<1> USE NAssumption, BoundaryAssumption, CpuFacts DEF SchedInv, TypeOK, At, InIrq, Goto, IrqGoto, Runs, boot, tasks, StartCore
<1>1. TypeOK'
  BY Zenon DEF Main, Irq, Flag, InSetup, Null, Free, Cpu, Bsp, BootOrder
<1>2. BootOrder'
  BY SMTT(30) DEF BootOrder, Queued, After, InSetup, Cpu, Bsp
<1>3. RecordSet'
  BY DEF RecordSet, Enabled, Queued, After, BootOrder, InSetup
<1>4. FlagsExact'
  BY DEF FlagsExact, Enabled, InSchedule, Queued, After, BootOrder, InSetup, RecordSet
<1>5. LockExact'
  BY Zenon DEF LockExact, BootOrder, Queued, After, InSetup
<1>6. QueueBuilt'
  BY Zenon DEF QueueBuilt, QueueExact, Queued, After, BootOrder, InSetup, Cpu, Bsp, Null
<1>7. OwnTask'
  BY SMTT(30) DEF OwnTask, NoTask, BootOrder, InSetup, Queued, After
<1>8. AssertionsHold'
  BY SMTT(30) DEF AssertionsHold, Torn, After, FlagsExact, BootOrder, OwnTask, NoTask
<1> QED
  BY <1>1, <1>2, <1>3, <1>4, <1>5, <1>6, <1>7, <1>8, Zenon

\* SchedInv is kept when smp_init sees that core i has come up.
LEMMA KeepsCoreStarted ==
  ASSUME ~LateCores, SchedInv, CoreStarted
  PROVE  SchedInv'
<1> USE NAssumption, BoundaryAssumption, CpuFacts DEF SchedInv, TypeOK, At, InIrq, Goto, IrqGoto, Runs, boot, tasks, CoreStarted, Answered
<1>1. TypeOK'
  <2>1. i \in 1..(N - 1)
    BY Zenon DEF BootOrder
  <2>2. i' \in 0..N
    BY <2>1
  <2> QED
    BY <2>2, Zenon DEF Main, BootOrder
<1>2. BootOrder'
  BY SMTT(30) DEF BootOrder, Queued, After, InSetup, Cpu, Bsp
<1>3. RecordSet'
  BY DEF RecordSet, Enabled, Queued, After, BootOrder, InSetup
<1>4. FlagsExact'
  BY DEF FlagsExact, Enabled, InSchedule, Queued, After, BootOrder, InSetup, RecordSet
<1>5. LockExact'
  BY Zenon DEF LockExact, BootOrder, Queued, After, InSetup
<1>6. QueueBuilt'
  BY Zenon DEF QueueBuilt, QueueExact, Queued, After, BootOrder, InSetup, Cpu, Bsp, Null
<1>7. OwnTask'
  BY SMTT(30) DEF OwnTask, NoTask, BootOrder, InSetup, Queued, After
<1>8. AssertionsHold'
  BY SMTT(30) DEF AssertionsHold, Torn, After, FlagsExact, BootOrder, OwnTask, NoTask
<1> QED
  BY <1>1, <1>2, <1>3, <1>4, <1>5, <1>6, <1>7, <1>8, Zenon

\* SchedInv is kept when smp_init gives up on a core and panics.
LEMMA KeepsCoreMissing ==
  ASSUME ~LateCores, SchedInv, CoreMissing
  PROVE  SchedInv'
<1> USE NAssumption, BoundaryAssumption, CpuFacts DEF SchedInv, TypeOK, At, InIrq, Goto, IrqGoto, Runs, boot, tasks, CoreMissing
<1>1. TypeOK'
  BY Zenon DEF Main, Irq, Flag, InSetup, Null, Free, Cpu, Bsp, BootOrder
<1>2. BootOrder'
  BY Zenon DEF BootOrder, Queued, After, InSetup, Cpu, Bsp
<1>3. RecordSet'
  BY Zenon DEF RecordSet, Enabled, Queued, After, BootOrder, InSetup
<1>4. FlagsExact'
  BY Zenon DEF FlagsExact, Enabled, InSchedule, Queued, After, BootOrder, InSetup, RecordSet
<1>5. LockExact'
  BY Zenon DEF LockExact, BootOrder, Queued, After, InSetup
<1>6. QueueBuilt'
  BY Zenon DEF QueueBuilt, QueueExact, Queued, After, BootOrder, InSetup, Cpu, Bsp, Null
<1>7. OwnTask'
  BY SMTT(30) DEF OwnTask, NoTask, BootOrder, InSetup, Queued, After
<1>8. AssertionsHold'
  BY SMTT(30) DEF AssertionsHold, Torn, After, FlagsExact, BootOrder, OwnTask, NoTask
<1> QED
  BY <1>1, <1>2, <1>3, <1>4, <1>5, <1>6, <1>7, <1>8, Zenon

\* SchedInv is kept when sched_enqueue takes sched_lock on the boot CPU.
LEMMA KeepsEnqueueLock ==
  ASSUME ~LateCores, SchedInv, EnqueueLock
  PROVE  SchedInv'
<1> USE NAssumption, BoundaryAssumption, CpuFacts DEF SchedInv, TypeOK, At, InIrq, Goto, IrqGoto, Runs, boot, tasks, EnqueueLock, LockIsFree
<1>1. TypeOK'
  BY Zenon DEF Main, Irq, Flag, InSetup, Null, Free, Cpu, Bsp, BootOrder
<1>2. BootOrder'
  BY Zenon DEF BootOrder, Queued, After, InSetup, Cpu, Bsp
<1>3. RecordSet'
  BY DEF RecordSet, Enabled, Queued, After, BootOrder, InSetup
<1>4. FlagsExact'
  BY DEF FlagsExact, Enabled, InSchedule, Queued, After, BootOrder, InSetup, RecordSet
<1>5. LockExact'
  <2>1. \A d \in Cpu : irq[d] \notin {"sched", "walk", "unlock"}
    BY NobodyHolds, Zenon
  <2>2. lock' = Bsp /\ main'[Bsp] = "next" /\ irq' = irq
    BY Zenon
  <2> QED
    BY <2>1, <2>2, Zenon DEF LockExact
<1>6. QueueBuilt'
  BY Zenon DEF QueueBuilt, QueueExact, Queued, After, BootOrder, InSetup, Cpu, Bsp, Null
<1>7. OwnTask'
  BY SMTT(30) DEF OwnTask, NoTask, BootOrder, InSetup, Queued, After
<1>8. AssertionsHold'
  BY SMTT(30) DEF AssertionsHold, Torn, After, FlagsExact, BootOrder, OwnTask, NoTask
<1> QED
  BY <1>1, <1>2, <1>3, <1>4, <1>5, <1>6, <1>7, <1>8, Zenon

\* SchedInv is kept when the enqueueing loop of sched_init ends: every CPU is
\* enabled, so it skips none.
LEMMA KeepsEnqueueSkip ==
  ASSUME ~LateCores, SchedInv, EnqueueSkip
  PROVE  SchedInv'
<1> USE NAssumption, BoundaryAssumption, CpuFacts DEF SchedInv, TypeOK, At, InIrq, Goto, IrqGoto, Runs, boot, tasks, EnqueueSkip
<1>1. TypeOK'
  <2>1. i' \in 0..N
    OBVIOUS
  <2> QED
    BY <2>1, Zenon DEF Main
<1>2. BootOrder'
  BY ZenonT(30) DEF BootOrder, Queued, After, InSetup, Cpu, Bsp
<1>3. RecordSet'
  BY DEF RecordSet, Enabled, Queued, After, BootOrder, InSetup
<1>4. FlagsExact'
  BY DEF FlagsExact, Enabled, InSchedule, Queued, After, BootOrder, InSetup, RecordSet
<1>5. LockExact'
  BY DEF LockExact, BootOrder, Queued, After, InSetup
<1>6. QueueBuilt'
  <2>1. CASE i < N
    <3>1. i \in Cpu
      BY <2>1 DEF Cpu
    <3>2. main[i] \in {"cmain", "enqueue"}
      BY <2>1, <3>1, Zenon DEF BootOrder
    <3>3. Enabled(i)
      BY <3>1, <3>2, Zenon DEF RecordSet
    <3> QED
      BY <2>1, <3>3, Zenon
  <2>2. CASE ~(i < N)
    <3>1. i = N /\ main'[Bsp] = "flag" /\ UNCHANGED <<next, sched_queue>>
      BY <2>2
    <3>2. sched_queue = N - 1
      BY <3>1, Zenon DEF QueueBuilt
    <3>3. \A d \in Cpu : next[d] = d - 1
      BY <3>1 DEF QueueBuilt, Queued, Cpu
    <3> QED
      BY <3>1, <3>2, <3>3, Zenon DEF QueueBuilt, QueueExact, Queued, After
  <2> QED
    BY <2>1, <2>2, Zenon
<1>7. OwnTask'
  BY SMTT(30) DEF OwnTask, NoTask, BootOrder, InSetup, Queued, After
<1>8. AssertionsHold'
  BY SMTT(30) DEF AssertionsHold, Torn, After, FlagsExact, BootOrder, OwnTask, NoTask
<1> QED
  BY <1>1, <1>2, <1>3, <1>4, <1>5, <1>6, <1>7, <1>8, Zenon

\* SchedInv is kept when sched_enqueue links the new task to the head of the
\* queue.
LEMMA KeepsEnqueueNext ==
  ASSUME ~LateCores, SchedInv, EnqueueNext
  PROVE  SchedInv'
<1> USE NAssumption, BoundaryAssumption, CpuFacts DEF SchedInv, TypeOK, At, InIrq, Goto, IrqGoto, Runs, boot, tasks, EnqueueNext, NextOfNew
<1>1. TypeOK'
  BY Zenon DEF Main, Irq, Flag, InSetup, Null, Free, Cpu, Bsp, BootOrder
<1>2. BootOrder'
  BY Zenon DEF BootOrder, Queued, After, InSetup, Cpu, Bsp
<1>3. RecordSet'
  BY DEF RecordSet, Enabled, Queued, After, BootOrder, InSetup
<1>4. FlagsExact'
  BY DEF FlagsExact, Enabled, InSchedule, Queued, After, BootOrder, InSetup, RecordSet
<1>5. LockExact'
  BY Zenon DEF LockExact, BootOrder, Queued, After, InSetup
<1>6. QueueBuilt'
  <2>1. i \in Cpu /\ main'[Bsp] = "push" /\ i' = i
    BY DEF BootOrder, Cpu
  <2>2. next'[i] = i - 1 /\ \A d \in Cpu : d < i => next'[d] = d - 1
    BY <2>1, Zenon DEF QueueBuilt, Queued, Cpu
  <2> QED
    BY <2>1, <2>2 DEF QueueBuilt, QueueExact, Queued, After
<1>7. OwnTask'
  BY SMTT(30) DEF OwnTask, NoTask, BootOrder, InSetup, Queued, After
<1>8. AssertionsHold'
  BY SMTT(30) DEF AssertionsHold, Torn, After, FlagsExact, BootOrder, OwnTask, NoTask
<1> QED
  BY <1>1, <1>2, <1>3, <1>4, <1>5, <1>6, <1>7, <1>8, Zenon

\* SchedInv is kept when sched_enqueue makes the new task the head.
LEMMA KeepsEnqueuePush ==
  ASSUME ~LateCores, SchedInv, EnqueuePush
  PROVE  SchedInv'
<1> USE NAssumption, BoundaryAssumption, CpuFacts DEF SchedInv, TypeOK, At, InIrq, Goto, IrqGoto, Runs, boot, tasks, EnqueuePush
<1>1. TypeOK'
  <2>1. i \in Cpu
    BY DEF BootOrder, Cpu
  <2> QED
    BY <2>1, Zenon DEF Main
<1>2. BootOrder'
  BY Zenon DEF BootOrder, Queued, After, InSetup, Cpu, Bsp
<1>3. RecordSet'
  BY DEF RecordSet, Enabled, Queued, After, BootOrder, InSetup
<1>4. FlagsExact'
  BY DEF FlagsExact, Enabled, InSchedule, Queued, After, BootOrder, InSetup, RecordSet
<1>5. LockExact'
  BY DEF LockExact, BootOrder, Queued, After, InSetup
<1>6. QueueBuilt'
  BY Zenon DEF QueueBuilt, QueueExact, Queued, After, BootOrder, InSetup, Cpu, Bsp, Null
<1>7. OwnTask'
  BY SMTT(30) DEF OwnTask, NoTask, BootOrder, InSetup, Queued, After
<1>8. AssertionsHold'
  BY SMTT(30) DEF AssertionsHold, Torn, After, FlagsExact, BootOrder, OwnTask, NoTask
<1> QED
  BY <1>1, <1>2, <1>3, <1>4, <1>5, <1>6, <1>7, <1>8, Zenon

\* SchedInv is kept when sched_enqueue releases sched_lock and the loop goes
\* on.
LEMMA KeepsEnqueueUnlock ==
  ASSUME ~LateCores, SchedInv, EnqueueUnlock
  PROVE  SchedInv'
<1> USE NAssumption, BoundaryAssumption, CpuFacts DEF SchedInv, TypeOK, At, InIrq, Goto, IrqGoto, Runs, boot, tasks, EnqueueUnlock
<1>1. TypeOK'
  BY SMTT(30) DEF Main, Irq, Flag, InSetup, Null, Free, Cpu, Bsp, BootOrder
<1>2. BootOrder'
  BY Zenon DEF BootOrder, Queued, After, InSetup, Cpu, Bsp
<1>3. RecordSet'
  BY DEF RecordSet, Enabled, Queued, After, BootOrder, InSetup
<1>4. FlagsExact'
  BY DEF FlagsExact, Enabled, InSchedule, Queued, After, BootOrder, InSetup, RecordSet
<1>5. LockExact'
  BY DEF LockExact, Free, BootOrder, Queued, After, InSetup, FlagsExact, InSchedule
<1>6. QueueBuilt'
  BY SMTT(30) DEF QueueBuilt, QueueExact, Queued, After, BootOrder, InSetup, Cpu, Bsp, Null
<1>7. OwnTask'
  BY SMTT(30) DEF OwnTask, NoTask, BootOrder, InSetup, Queued, After
<1>8. AssertionsHold'
  BY SMTT(30) DEF AssertionsHold, Torn, After, FlagsExact, BootOrder, OwnTask, NoTask
<1> QED
  BY <1>1, <1>2, <1>3, <1>4, <1>5, <1>6, <1>7, <1>8, Zenon

\* SchedInv is kept when the flag loop of sched_init skips a CPU or ends.
LEMMA KeepsFlagSkip ==
  ASSUME ~LateCores, SchedInv, FlagSkip
  PROVE  SchedInv'
<1> USE NAssumption, BoundaryAssumption, CpuFacts DEF SchedInv, TypeOK, At, InIrq, Goto, IrqGoto, Runs, boot, tasks, FlagSkip
<1>1. TypeOK'
  <2>1. i' \in 0..N
    OBVIOUS
  <2> QED
    BY <2>1, Zenon DEF Main
<1>2. BootOrder'
  BY ZenonT(30) DEF BootOrder, Queued, After, InSetup, Cpu, Bsp
<1>3. RecordSet'
  BY DEF RecordSet, Enabled, Queued, After, BootOrder, InSetup
<1>4. FlagsExact'
  BY DEF FlagsExact, Enabled, InSchedule, Queued, After, BootOrder, InSetup, RecordSet
<1>5. LockExact'
  BY DEF LockExact, BootOrder, Queued, After, InSetup
<1>6. QueueBuilt'
  BY ZenonT(30) DEF QueueBuilt, QueueExact, Queued, After, BootOrder, InSetup, Cpu, Bsp, Null
<1>7. OwnTask'
  BY SMTT(30) DEF OwnTask, NoTask, BootOrder, InSetup, Queued, After
<1>8. AssertionsHold'
  BY SMTT(30) DEF AssertionsHold, Torn, After, FlagsExact, BootOrder, OwnTask, NoTask
<1> QED
  BY <1>1, <1>2, <1>3, <1>4, <1>5, <1>6, <1>7, <1>8, Zenon

\* SchedInv is kept when sched_init sets (or begins to set)
\* CPU_FLAGS_SCHED_ENABLED.
LEMMA KeepsFlagSet ==
  ASSUME ~LateCores, SchedInv, FlagSet
  PROVE  SchedInv'
<1> USE NAssumption, BoundaryAssumption, CpuFacts DEF SchedInv, TypeOK, At, InIrq, Goto, IrqGoto, Runs, boot, tasks, FlagSet
<1>1. TypeOK'
  <2>1. i \in Cpu /\ i + 1 \in 0..N
    BY DEF Cpu
  <2>2. i' \in 0..N
    BY <2>1, Zenon
  <2> QED
    BY <2>1, <2>2 DEF Main, Flag
<1>2. BootOrder'
  BY ZenonT(30) DEF BootOrder, Queued, After, InSetup, Cpu, Bsp
<1>3. RecordSet'
  BY DEF RecordSet, Enabled, Queued, After, BootOrder, InSetup
<1>4. FlagsExact'
  <2>1. "INTERRUPT" \notin flags[Bsp]
    BY Zenon DEF AssertionsHold, Torn
  <2> QED
    BY <2>1, SMTT(30) DEF FlagsExact, Enabled, InSchedule, Queued, After, BootOrder, InSetup, RecordSet
<1>5. LockExact'
  BY DEF LockExact, BootOrder, Queued, After, InSetup
<1>6. QueueBuilt'
  BY ZenonT(30) DEF QueueBuilt, QueueExact, Queued, After, BootOrder, InSetup, Cpu, Bsp, Null
<1>7. OwnTask'
  BY SMTT(30) DEF OwnTask, NoTask, BootOrder, InSetup, Queued, After
<1>8. AssertionsHold'
  BY SMTT(30) DEF AssertionsHold, Torn, After, FlagsExact, BootOrder, OwnTask, NoTask
<1> QED
  BY <1>1, <1>2, <1>3, <1>4, <1>5, <1>6, <1>7, <1>8, Zenon

\* SchedInv is kept when sched_init writes back flags that may be out of date.
LEMMA KeepsFlagWrite ==
  ASSUME ~LateCores, SchedInv, FlagWrite
  PROVE  SchedInv'
<1> USE NAssumption, BoundaryAssumption, CpuFacts DEF SchedInv, TypeOK, At, InIrq, Goto, IrqGoto, Runs, boot, tasks, FlagWrite
<1>1. TypeOK'
  <2>1. i \in Cpu /\ i + 1 \in 0..N
    BY DEF BootOrder, Cpu
  <2> QED
    BY <2>1, Zenon DEF Main, Flag
<1>2. BootOrder'
  BY Zenon DEF BootOrder, Queued, After, InSetup, Cpu, Bsp
<1>3. RecordSet'
  BY DEF RecordSet, Enabled, FlagsExact, Queued, After, BootOrder, InSetup
<1>4. FlagsExact'
  <2>1. i \in Cpu /\ SplitFlags
    BY DEF BootOrder, Cpu, FlagsExact
  <2> QED
    BY <2>1, SMTT(30) DEF FlagsExact, Enabled, InSchedule, After
<1>5. LockExact'
  BY Zenon DEF LockExact, BootOrder, Queued, After, InSetup
<1>6. QueueBuilt'
  BY Zenon DEF QueueBuilt, QueueExact, Queued, After, BootOrder, InSetup, Cpu, Bsp, Null
<1>7. OwnTask'
  BY SMTT(30) DEF OwnTask, NoTask, BootOrder, InSetup, Queued, After
<1>8. AssertionsHold'
  <2>1. SplitFlags /\ irq[Bsp] = "none" /\ i \in Cpu
    BY DEF FlagsExact, BootOrder, Cpu
  <2>2. "INTERRUPT" \notin flags'[Bsp]
    <3>1. "INTERRUPT" \notin flags[Bsp]
      BY <2>1, Zenon DEF AssertionsHold, Torn
    <3>2. i = Bsp => "INTERRUPT" \notin rmw[Bsp]
      BY Zenon DEF FlagsExact
    <3> QED
      BY <2>1, <3>1, <3>2
  <2>3. ~Torn(Bsp)' /\ main'[Bsp] \in After /\ panic' = "none"
    BY <2>1, <2>2, Zenon DEF Torn, After
  <2> QED
    BY <2>1, <2>3, Zenon DEF AssertionsHold
<1> QED
  BY <1>1, <1>2, <1>3, <1>4, <1>5, <1>6, <1>7, <1>8, Zenon

\* SchedInv is kept when an application processor enters ap_main.
LEMMA Keepsap_main ==
  ASSUME ~LateCores, SchedInv, NEW c \in Cpu, ap_main(c)
  PROVE  SchedInv'
<1> USE NAssumption, BoundaryAssumption, CpuFacts DEF SchedInv, TypeOK, At, InIrq, Goto, IrqGoto, Runs, boot, tasks, ap_main
<1>1. TypeOK'
  BY ZenonT(30) DEF Main, Irq, Flag, InSetup, Null, Free, Cpu, Bsp, BootOrder
<1>2. BootOrder'
  BY ZenonT(30) DEF BootOrder, Queued, After, InSetup, Cpu, Bsp
<1>3. RecordSet'
  BY DEF RecordSet, Enabled, Queued, After, BootOrder, InSetup
<1>4. FlagsExact'
  BY DEF FlagsExact, Enabled, InSchedule, Queued, After, BootOrder, InSetup, RecordSet
<1>5. LockExact'
  BY Zenon DEF LockExact, BootOrder, Queued, After, InSetup
<1>6. QueueBuilt'
  BY Zenon DEF QueueBuilt, QueueExact, Queued, After, BootOrder, InSetup, Cpu, Bsp, Null
<1>7. OwnTask'
  BY SMTT(30) DEF OwnTask, NoTask, BootOrder, InSetup, Queued, After
<1>8. AssertionsHold'
  BY SMTT(30) DEF AssertionsHold, Torn, After, FlagsExact, BootOrder, OwnTask, NoTask
<1> QED
  BY <1>1, <1>2, <1>3, <1>4, <1>5, <1>6, <1>7, <1>8, Zenon

\* SchedInv is kept when smp_setup writes CPU_FLAGS_ENABLED.
LEMMA KeepsEnable ==
  ASSUME ~LateCores, SchedInv, NEW c \in Cpu, Enable(c)
  PROVE  SchedInv'
<1> USE NAssumption, BoundaryAssumption, CpuFacts DEF SchedInv, TypeOK, At, InIrq, Goto, IrqGoto, Runs, boot, tasks, Enable
<1>1. TypeOK'
  BY Zenon DEF Main, Irq, Flag, InSetup, Null, Free, Cpu, Bsp, BootOrder
<1>2. BootOrder'
  BY ZenonT(30) DEF BootOrder, Queued, After, InSetup, Cpu, Bsp
<1>3. RecordSet'
  BY SMTT(30) DEF RecordSet, Enabled, Queued, After, BootOrder, InSetup
<1>4. FlagsExact'
  BY DEF FlagsExact, Enabled, InSchedule, Queued, After, BootOrder, InSetup, RecordSet
<1>5. LockExact'
  BY DEF LockExact, BootOrder, Queued, After, InSetup
<1>6. QueueBuilt'
  BY Zenon DEF QueueBuilt, QueueExact, Queued, After, BootOrder, InSetup, Cpu, Bsp, Null
<1>7. OwnTask'
  BY SMTT(30) DEF OwnTask, NoTask, BootOrder, InSetup, Queued, After
<1>8. AssertionsHold'
  <2>1. panic' = "none"
    BY Zenon DEF RecordSet
  <2>2. \A d \in Cpu : Torn(d)' => Torn(d)
    BY SMTT(30) DEF Torn
  <2>3. main[Bsp] \in After => main'[Bsp] \in After
    BY Zenon DEF After
  <2> QED
    BY <2>1, <2>2, <2>3, Zenon DEF AssertionsHold
<1> QED
  BY <1>1, <1>2, <1>3, <1>4, <1>5, <1>6, <1>7, <1>8, Zenon

\* SchedInv is kept when smp_setup sets the current task.
LEMMA KeepsSetCurrent ==
  ASSUME ~LateCores, SchedInv, NEW c \in Cpu, SetCurrent(c)
  PROVE  SchedInv'
<1> USE NAssumption, BoundaryAssumption, CpuFacts DEF SchedInv, TypeOK, At, InIrq, Goto, IrqGoto, Runs, boot, tasks, SetCurrent
<1>1. TypeOK'
  BY Zenon DEF Main, Irq, Flag, InSetup, Null, Free, Cpu, Bsp, BootOrder
<1>2. BootOrder'
  BY ZenonT(30) DEF BootOrder, Queued, After, InSetup, Cpu, Bsp
<1>3. RecordSet'
  BY SMTT(30) DEF RecordSet, Enabled, Queued, After, BootOrder, InSetup
<1>4. FlagsExact'
  BY DEF FlagsExact, Enabled, InSchedule, Queued, After, BootOrder, InSetup, RecordSet
<1>5. LockExact'
  BY DEF LockExact, BootOrder, Queued, After, InSetup
<1>6. QueueBuilt'
  BY Zenon DEF QueueBuilt, QueueExact, Queued, After, BootOrder, InSetup, Cpu, Bsp, Null
<1>7. OwnTask'
  BY SMTT(30) DEF OwnTask, NoTask, BootOrder, InSetup, Queued, After
<1>8. AssertionsHold'
  BY SMTT(30) DEF AssertionsHold, Torn, After, FlagsExact, BootOrder, OwnTask, NoTask
<1> QED
  BY <1>1, <1>2, <1>3, <1>4, <1>5, <1>6, <1>7, <1>8, Zenon

\* SchedInv is kept when smp_setup clears the core task.
LEMMA KeepsMemset ==
  ASSUME ~LateCores, SchedInv, NEW c \in Cpu, Memset(c)
  PROVE  SchedInv'
<1> USE NAssumption, BoundaryAssumption, CpuFacts DEF SchedInv, TypeOK, At, InIrq, Goto, IrqGoto, Runs, boot, tasks, Memset
<1>1. TypeOK'
  BY ZenonT(30) DEF Main, Irq, Flag, InSetup, Null, Free, Cpu, Bsp, BootOrder
<1>2. BootOrder'
  BY SMTT(30) DEF BootOrder, Queued, After, InSetup, Cpu, Bsp
<1>3. RecordSet'
  BY DEF RecordSet, Enabled, Queued, After, BootOrder, InSetup
<1>4. FlagsExact'
  BY DEF FlagsExact, Enabled, InSchedule, Queued, After, BootOrder, InSetup, RecordSet
<1>5. LockExact'
  BY SMTT(30) DEF LockExact, BootOrder, Queued, After, InSetup
<1>6. QueueBuilt'
  BY SMTT(30) DEF QueueBuilt, QueueExact, Queued, After, BootOrder, InSetup, Cpu, Bsp, Null
<1>7. OwnTask'
  BY SMTT(30) DEF OwnTask, NoTask, BootOrder, InSetup, Queued, After
<1>8. AssertionsHold'
  BY SMTT(30) DEF AssertionsHold, Torn, After, FlagsExact, BootOrder, OwnTask, NoTask
<1> QED
  BY <1>1, <1>2, <1>3, <1>4, <1>5, <1>6, <1>7, <1>8, Zenon

\* SchedInv is kept when smp_setup binds the core task to its CPU.
LEMMA KeepsAffinity ==
  ASSUME ~LateCores, SchedInv, NEW c \in Cpu, Affinity(c)
  PROVE  SchedInv'
<1> USE NAssumption, BoundaryAssumption, CpuFacts DEF SchedInv, TypeOK, At, InIrq, Goto, IrqGoto, Runs, boot, tasks, Affinity, CoreAffinity
<1>1. TypeOK'
  BY ZenonT(30) DEF Main, Irq, Flag, InSetup, Null, Free, Cpu, Bsp, BootOrder
<1>2. BootOrder'
  BY Zenon DEF BootOrder, Queued, After, InSetup, Cpu, Bsp
<1>3. RecordSet'
  BY SMTT(30) DEF RecordSet, Enabled, Queued, After, BootOrder, InSetup
<1>4. FlagsExact'
  BY DEF FlagsExact, Enabled, InSchedule, Queued, After, BootOrder, InSetup, RecordSet
<1>5. LockExact'
  BY Zenon DEF LockExact, BootOrder, Queued, After, InSetup
<1>6. QueueBuilt'
  BY Zenon DEF QueueBuilt, QueueExact, Queued, After, BootOrder, InSetup, Cpu, Bsp, Null
<1>7. OwnTask'
  BY SMTT(30) DEF OwnTask, NoTask, BootOrder, InSetup, Queued, After
<1>8. AssertionsHold'
  BY SMTT(30) DEF AssertionsHold, Torn, After, FlagsExact, BootOrder, OwnTask, NoTask
<1> QED
  BY <1>1, <1>2, <1>3, <1>4, <1>5, <1>6, <1>7, <1>8, Zenon

\* SchedInv is kept when smp_setup gives the core task its address space;
\* sched_init begins.
LEMMA KeepsAspace ==
  ASSUME ~LateCores, SchedInv, NEW c \in Cpu, Aspace(c)
  PROVE  SchedInv'
<1> USE NAssumption, BoundaryAssumption, CpuFacts DEF SchedInv, TypeOK, At, InIrq, Goto, IrqGoto, Runs, boot, tasks, Aspace
<1>1. TypeOK'
  <2>1. i' \in 0..N /\ main' \in [Cpu -> Main] /\ lock' \in Cpu \cup {Free}
    BY DEF Main
  <2>2. next' \in [Cpu -> Cpu \cup {Null}] /\ aspace' \in SUBSET Cpu
    BY Zenon
  <2> QED
    BY <2>1, <2>2, Zenon
<1>2. BootOrder'
  <2>1. CASE c = Bsp
    BY <2>1, SMTT(30) DEF BootOrder, Queued, After, InSetup
  <2>2. CASE c # Bsp
    BY <2>2, SMTT(30) DEF BootOrder, Queued, After, InSetup
  <2> QED
    BY <2>1, <2>2, Zenon
<1>3. RecordSet'
  BY SMTT(30) DEF RecordSet, Enabled, Queued, After, BootOrder, InSetup
<1>4. FlagsExact'
  BY SMTT(30) DEF FlagsExact, Enabled, InSchedule, Queued, After, BootOrder, InSetup, RecordSet
<1>5. LockExact'
  BY DEF LockExact, Free, BootOrder, Queued, After, InSetup, FlagsExact, InSchedule
<1>6. QueueBuilt'
  <2>1. CASE c = Bsp
    BY <2>1, SMTT(30) DEF QueueBuilt, QueueExact, Queued, After, Cpu, Null
  <2>2. CASE c # Bsp
    <3>1. main[Bsp] \notin Queued \cup After /\ main'[Bsp] = main[Bsp]
      BY <2>2 DEF BootOrder, Queued, After
    <3> QED
      BY <3>1, Zenon DEF QueueBuilt, QueueExact, Queued, After
  <2> QED
    BY <2>1, <2>2, Zenon
<1>7. OwnTask'
  BY SMTT(30) DEF OwnTask, NoTask, BootOrder, InSetup, Queued, After
<1>8. AssertionsHold'
  BY SMTT(30) DEF AssertionsHold, Torn, After, FlagsExact, BootOrder, OwnTask, NoTask
<1> QED
  BY <1>1, <1>2, <1>3, <1>4, <1>5, <1>6, <1>7, <1>8, Zenon

\* SchedInv is kept when the timer interrupts a CPU.
LEMMA KeepsTimer ==
  ASSUME ~LateCores, SchedInv, NEW c \in Cpu, Timer(c)
  PROVE  SchedInv'
<1> USE NAssumption, BoundaryAssumption, CpuFacts DEF SchedInv, TypeOK, At, InIrq, Goto, IrqGoto, Runs, boot, tasks, Timer
<1>1. TypeOK'
  <2>1. flags' \in [Cpu -> SUBSET Flag] /\ rmw' \in [Cpu -> SUBSET Flag]
    BY SMTT(30) DEF Flag
  <2>2. irq' \in [Cpu -> Irq] /\ inService' \in [Cpu -> BOOLEAN]
    BY SMTT(30) DEF Irq
  <2> QED
    BY <2>1, <2>2, Zenon
<1>2. BootOrder'
  BY Zenon DEF BootOrder
<1>3. RecordSet'
  BY SMTT(30) DEF RecordSet, Enabled
<1>4. FlagsExact'
  BY SMTT(30) DEF FlagsExact, Enabled, InSchedule
<1>5. LockExact'
  BY SMTT(30) DEF LockExact
<1>6. QueueBuilt'
  BY Zenon DEF QueueBuilt, QueueExact
<1>7. OwnTask'
  BY SMTT(30) DEF OwnTask, NoTask, BootOrder, InSetup, Queued, After
<1>8. AssertionsHold'
  BY SMTT(30) DEF AssertionsHold, Torn, After, FlagsExact, BootOrder, OwnTask, NoTask
<1> QED
  BY <1>1, <1>2, <1>3, <1>4, <1>5, <1>6, <1>7, <1>8, Zenon

\* SchedInv is kept when schedule() takes sched_lock.
LEMMA KeepsSchedLock ==
  ASSUME ~LateCores, SchedInv, NEW c \in Cpu, SchedLock(c)
  PROVE  SchedInv'
<1> USE NAssumption, BoundaryAssumption, CpuFacts DEF SchedInv, TypeOK, At, InIrq, Goto, IrqGoto, Runs, boot, tasks, SchedLock, LockIsFree
<1>1. TypeOK'
  BY ZenonT(30) DEF Main, Irq, Flag, InSetup, Null, Free, Cpu, Bsp
<1>2. BootOrder'
  BY Zenon DEF BootOrder
<1>3. RecordSet'
  BY Zenon DEF RecordSet, Enabled
<1>4. FlagsExact'
  BY Zenon DEF FlagsExact, Enabled, InSchedule
<1>5. LockExact'
  <2>1. \A d \in Cpu : irq[d] \notin {"sched", "walk", "unlock"}
    BY NobodyHolds, Zenon
  <2>2. main[Bsp] \notin {"next", "push", "unlock"}
    BY NobodyHolds, Zenon
  <2>3. lock' = c /\ main' = main /\ irq'[c] = "sched" /\ \A d \in Cpu : d # c => irq'[d] = irq[d]
    BY Zenon
  <2>4. ASSUME NEW d \in Cpu PROVE (lock = d)' <=> irq'[d] \in {"sched", "walk", "unlock"}
    BY <2>1, <2>3, Zenon
  <2> QED
    BY <2>2, <2>3, <2>4, Zenon DEF LockExact
<1>6. QueueBuilt'
  BY Zenon DEF QueueBuilt, QueueExact
<1>7. OwnTask'
  BY SMTT(30) DEF OwnTask, NoTask, BootOrder, InSetup, Queued, After
<1>8. AssertionsHold'
  BY SMTT(30) DEF AssertionsHold, Torn, After, FlagsExact, BootOrder, OwnTask, NoTask
<1> QED
  BY <1>1, <1>2, <1>3, <1>4, <1>5, <1>6, <1>7, <1>8, Zenon

\* SchedInv is kept when the handler writes the flags it has read, with
\* CPU_FLAGS_INTERRUPT.
LEMMA KeepsSetWrite ==
  ASSUME ~LateCores, SchedInv, NEW c \in Cpu, SetWrite(c)
  PROVE  SchedInv'
<1> USE NAssumption, BoundaryAssumption, CpuFacts DEF SchedInv, TypeOK, At, InIrq, Goto, IrqGoto, Runs, boot, tasks, SetWrite
<1>1. TypeOK'
  BY ZenonT(30) DEF Main, Irq, Flag, InSetup, Null, Free, Cpu, Bsp
<1>2. BootOrder'
  BY Zenon DEF BootOrder
<1>3. RecordSet'
  BY Zenon DEF RecordSet, Enabled, FlagsExact
<1>4. FlagsExact'
  BY Zenon DEF FlagsExact, Enabled, InSchedule
<1>5. LockExact'
  BY Zenon DEF LockExact
<1>6. QueueBuilt'
  BY Zenon DEF QueueBuilt, QueueExact
<1>7. OwnTask'
  BY SMTT(30) DEF OwnTask, NoTask, BootOrder, InSetup, Queued, After
<1>8. AssertionsHold'
  BY SMTT(30) DEF AssertionsHold, Torn, After, FlagsExact, BootOrder, OwnTask, NoTask
<1> QED
  BY <1>1, <1>2, <1>3, <1>4, <1>5, <1>6, <1>7, <1>8, Zenon

\* SchedInv is kept when the handler calls schedule(), or not.
LEMMA KeepsTick ==
  ASSUME ~LateCores, SchedInv, NEW c \in Cpu, Tick(c)
  PROVE  SchedInv'
<1> USE NAssumption, BoundaryAssumption, CpuFacts DEF SchedInv, TypeOK, At, InIrq, Goto, IrqGoto, Runs, boot, tasks, Tick, Schedules
<1>1. TypeOK'
  BY ZenonT(30) DEF Main, Irq, Flag, InSetup, Null, Free, Cpu, Bsp
<1>2. BootOrder'
  BY Zenon DEF BootOrder
<1>3. RecordSet'
  BY Zenon DEF RecordSet, Enabled
<1>4. FlagsExact'
  BY SMTT(30) DEF FlagsExact, Enabled, InSchedule
<1>5. LockExact'
  BY ZenonT(40) DEF LockExact
<1>6. QueueBuilt'
  BY Zenon DEF QueueBuilt, QueueExact
<1>7. OwnTask'
  BY SMTT(30) DEF OwnTask, NoTask, BootOrder, InSetup, Queued, After
<1>8. AssertionsHold'
  <2>1. \A d \in Cpu : Torn(d)' => Torn(d)
    BY SMTT(30) DEF Torn
  <2>2. CASE current[c] = Null
    <3>1. main[c] \in NoTask /\ Enabled(c)
      BY <2>2, Zenon DEF OwnTask, FlagsExact
    <3>2. main[c] = "current"
      BY <3>1, Zenon DEF RecordSet, NoTask
    <3>3. main' = main /\ irq' = irq /\ panic' = "intr.c:367"
      BY <2>2, Zenon
    <3> QED
      BY <2>1, <3>2, <3>3, Zenon DEF AssertionsHold
  <2>3. CASE current[c] # Null
    <3>1. main' = main /\ panic' = "none"
      BY <2>3, Zenon
    <3> QED
      BY <2>1, <3>1, Zenon DEF AssertionsHold
  <2> QED
    BY <2>2, <2>3, Zenon
<1> QED
  BY <1>1, <1>2, <1>3, <1>4, <1>5, <1>6, <1>7, <1>8, Zenon

\* SchedInv is kept when schedule() lets the current task go on.
LEMMA KeepsQuantumLeft ==
  ASSUME ~LateCores, SchedInv, NEW c \in Cpu, QuantumLeft(c)
  PROVE  SchedInv'
<1> USE NAssumption, BoundaryAssumption, CpuFacts DEF SchedInv, TypeOK, At, InIrq, Goto, IrqGoto, Runs, boot, tasks, QuantumLeft
<1>1. TypeOK'
  BY ZenonT(30) DEF Main, Irq, Flag, InSetup, Null, Free, Cpu, Bsp
<1>2. BootOrder'
  BY Zenon DEF BootOrder
<1>3. RecordSet'
  BY Zenon DEF RecordSet, Enabled
<1>4. FlagsExact'
  BY Zenon DEF FlagsExact, Enabled, InSchedule
<1>5. LockExact'
  BY Zenon DEF LockExact
<1>6. QueueBuilt'
  BY Zenon DEF QueueBuilt, QueueExact
<1>7. OwnTask'
  BY SMTT(30) DEF OwnTask, NoTask, BootOrder, InSetup, Queued, After
<1>8. AssertionsHold'
  BY SMTT(30) DEF AssertionsHold, Torn, After, FlagsExact, BootOrder, OwnTask, NoTask
<1> QED
  BY <1>1, <1>2, <1>3, <1>4, <1>5, <1>6, <1>7, <1>8, Zenon

\* SchedInv is kept when schedule() makes the current task READY.
LEMMA KeepsQuantumOver ==
  ASSUME ~LateCores, SchedInv, NEW c \in Cpu, QuantumOver(c)
  PROVE  SchedInv'
<1> USE NAssumption, BoundaryAssumption, CpuFacts DEF SchedInv, TypeOK, At, InIrq, Goto, IrqGoto, Runs, boot, tasks, QuantumOver, Preempted
<1>1. TypeOK'
  BY ZenonT(30) DEF Main, Irq, Flag, InSetup, Null, Free, Cpu, Bsp
<1>2. BootOrder'
  BY Zenon DEF BootOrder
<1>3. RecordSet'
  BY Zenon DEF RecordSet, Enabled
<1>4. FlagsExact'
  BY Zenon DEF FlagsExact, Enabled, InSchedule
<1>5. LockExact'
  BY Zenon DEF LockExact
<1>6. QueueBuilt'
  BY Zenon DEF QueueBuilt, QueueExact
<1>7. OwnTask'
  BY SMTT(30) DEF OwnTask, NoTask, BootOrder, InSetup, Queued, After
<1>8. AssertionsHold'
  BY SMTT(30) DEF AssertionsHold, Torn, After, FlagsExact, BootOrder, OwnTask, NoTask
<1> QED
  BY <1>1, <1>2, <1>3, <1>4, <1>5, <1>6, <1>7, <1>8, Zenon

\* SchedInv is kept when __sched_next goes to the next task, and stops there or
\* not.
LEMMA KeepsWalk ==
  ASSUME ~LateCores, SchedInv, NEW c \in Cpu, Walk(c)
  PROVE  SchedInv'
<1> USE NAssumption, BoundaryAssumption, CpuFacts DEF SchedInv, TypeOK, At, InIrq, Goto, IrqGoto, Runs, boot, tasks, Walk, MayRun, Follow
<1>1. TypeOK'
  <2>1. Follow(current[c]) \in Cpu
    BY WalkFacts, Zenon
  <2>2. current' \in [Cpu -> Cpu \cup {Null}] /\ status' \in [Cpu -> {"READY", "RUNNING"}]
    BY <2>1, SMTT(30)
  <2>3. irq' \in [Cpu -> Irq]
    BY SMTT(30) DEF Irq
  <2> QED
    BY <2>2, <2>3, Zenon
<1>2. BootOrder'
  BY Zenon DEF BootOrder
<1>3. RecordSet'
  BY Zenon DEF RecordSet, Enabled
<1>4. FlagsExact'
  BY SMTT(30) DEF FlagsExact, Enabled, InSchedule
<1>5. LockExact'
  BY SMTT(30) DEF LockExact
<1>6. QueueBuilt'
  BY Zenon DEF QueueBuilt, QueueExact
<1>7. OwnTask'
  <2>1. Follow(current[c]) \in Cpu /\ \A d \in Cpu : allowed[d] = {d}
    BY WalkFacts, Zenon
  <2> DEFINE t == Follow(current[c])
  <2>2. CASE MayRun(t, c) /\ status[t] = "READY"
    <3>1. t \in Cpu /\ c \in allowed[t] /\ allowed[t] = {t}
      BY <2>1, <2>2, ZenonT(30)
    <3>2. t = c
      BY <3>1, Zenon
    <3> QED
      BY <2>1, <2>2, <3>2 DEF OwnTask
  <2>3. CASE ~(MayRun(t, c) /\ status[t] = "READY")
    BY <2>1, <2>3, SMTT(30) DEF OwnTask
  <2> QED
    BY <2>2, <2>3, Zenon
<1>8. AssertionsHold'
  <2>1. Follow(current[c]) \in Cpu /\ \A d \in Cpu : d \in aspace
    BY WalkFacts, Zenon
  <2>2. panic' = "none" /\ flags' = flags /\ main' = main
    BY <2>1, ZenonT(30)
  <2>3. irq' = irq \/ irq' = [irq EXCEPT ![c] = "unlock"]
    BY <2>1, ZenonT(30)
  <2>4. \A d \in Cpu : Torn(d)' => Torn(d)
    BY <2>2, <2>3, ZenonT(60) DEF Torn
  <2> QED
    BY <2>2, <2>4, Zenon DEF AssertionsHold
<1> QED
  BY <1>1, <1>2, <1>3, <1>4, <1>5, <1>6, <1>7, <1>8, Zenon

\* SchedInv is kept when schedule() releases sched_lock.
LEMMA KeepsSchedUnlock ==
  ASSUME ~LateCores, SchedInv, NEW c \in Cpu, SchedUnlock(c)
  PROVE  SchedInv'
<1> USE NAssumption, BoundaryAssumption, CpuFacts DEF SchedInv, TypeOK, At, InIrq, Goto, IrqGoto, Runs, boot, tasks, SchedUnlock
<1>1. TypeOK'
  BY ZenonT(30) DEF Main, Irq, Flag, InSetup, Null, Free, Cpu, Bsp
<1>2. BootOrder'
  BY Zenon DEF BootOrder
<1>3. RecordSet'
  BY Zenon DEF RecordSet, Enabled
<1>4. FlagsExact'
  BY Zenon DEF FlagsExact, Enabled, InSchedule
<1>5. LockExact'
  BY Zenon DEF LockExact, FlagsExact, InSchedule, After
<1>6. QueueBuilt'
  BY Zenon DEF QueueBuilt, QueueExact
<1>7. OwnTask'
  BY SMTT(30) DEF OwnTask, NoTask, BootOrder, InSetup, Queued, After
<1>8. AssertionsHold'
  BY SMTT(30) DEF AssertionsHold, Torn, After, FlagsExact, BootOrder, OwnTask, NoTask
<1> QED
  BY <1>1, <1>2, <1>3, <1>4, <1>5, <1>6, <1>7, <1>8, SMTT(30)

\* SchedInv is kept when the handler acknowledges the interrupt.
LEMMA KeepsEoi ==
  ASSUME ~LateCores, SchedInv, NEW c \in Cpu, Eoi(c)
  PROVE  SchedInv'
<1> USE NAssumption, BoundaryAssumption, CpuFacts DEF SchedInv, TypeOK, At, InIrq, Goto, IrqGoto, Runs, boot, tasks, Eoi, apic_eoi
<1>1. TypeOK'
  BY ZenonT(30) DEF Main, Irq, Flag, InSetup, Null, Free, Cpu, Bsp
<1>2. BootOrder'
  BY Zenon DEF BootOrder
<1>3. RecordSet'
  BY Zenon DEF RecordSet, Enabled
<1>4. FlagsExact'
  BY Zenon DEF FlagsExact, Enabled, InSchedule
<1>5. LockExact'
  BY Zenon DEF LockExact
<1>6. QueueBuilt'
  BY Zenon DEF QueueBuilt, QueueExact
<1>7. OwnTask'
  BY SMTT(30) DEF OwnTask, NoTask, BootOrder, InSetup, Queued, After
<1>8. AssertionsHold'
  BY SMTT(30) DEF AssertionsHold, Torn, After, FlagsExact, BootOrder, OwnTask, NoTask
<1> QED
  BY <1>1, <1>2, <1>3, <1>4, <1>5, <1>6, <1>7, <1>8, Zenon

\* SchedInv is kept when the handler clears (or begins to clear)
\* CPU_FLAGS_INTERRUPT and returns.
LEMMA KeepsClear ==
  ASSUME ~LateCores, SchedInv, NEW c \in Cpu, Clear(c)
  PROVE  SchedInv'
<1> USE NAssumption, BoundaryAssumption, CpuFacts DEF SchedInv, TypeOK, At, InIrq, Goto, IrqGoto, Runs, boot, tasks, Clear, FlagCleared
<1>1. TypeOK'
  <2>1. flags' \in [Cpu -> SUBSET Flag] /\ rmw' \in [Cpu -> SUBSET Flag]
    BY SMTT(30)
  <2>2. irq' \in [Cpu -> Irq]
    BY SMTT(30) DEF Irq
  <2> QED
    BY <2>1, <2>2, Zenon
<1>2. BootOrder'
  BY Zenon DEF BootOrder
<1>3. RecordSet'
  BY SMTT(30) DEF RecordSet, Enabled
<1>4. FlagsExact'
  BY SMTT(30) DEF FlagsExact, Enabled, InSchedule
<1>5. LockExact'
  BY SMTT(30) DEF LockExact
<1>6. QueueBuilt'
  BY Zenon DEF QueueBuilt, QueueExact
<1>7. OwnTask'
  BY SMTT(30) DEF OwnTask, NoTask, BootOrder, InSetup, Queued, After
<1>8. AssertionsHold'
  BY SMTT(30) DEF AssertionsHold, Torn, After, FlagsExact, BootOrder, OwnTask, NoTask
<1> QED
  BY <1>1, <1>2, <1>3, <1>4, <1>5, <1>6, <1>7, <1>8, Zenon

\* SchedInv is kept when the handler writes the flags it has read, without
\* CPU_FLAGS_INTERRUPT.
LEMMA KeepsClearWrite ==
  ASSUME ~LateCores, SchedInv, NEW c \in Cpu, ClearWrite(c)
  PROVE  SchedInv'
<1> USE NAssumption, BoundaryAssumption, CpuFacts DEF SchedInv, TypeOK, At, InIrq, Goto, IrqGoto, Runs, boot, tasks, ClearWrite
<1>1. TypeOK'
  BY ZenonT(30) DEF Main, Irq, Flag, InSetup, Null, Free, Cpu, Bsp
<1>2. BootOrder'
  BY Zenon DEF BootOrder
<1>3. RecordSet'
  BY SMTT(30) DEF RecordSet, Enabled, FlagsExact
<1>4. FlagsExact'
  BY SMTT(30) DEF FlagsExact, Enabled, InSchedule
<1>5. LockExact'
  BY SMTT(30) DEF LockExact
<1>6. QueueBuilt'
  BY Zenon DEF QueueBuilt, QueueExact
<1>7. OwnTask'
  BY SMTT(30) DEF OwnTask, NoTask, BootOrder, InSetup, Queued, After
<1>8. AssertionsHold'
  BY SMTT(30) DEF AssertionsHold, Torn, After, FlagsExact, BootOrder, OwnTask, NoTask
<1> QED
  BY <1>1, <1>2, <1>3, <1>4, <1>5, <1>6, <1>7, <1>8, Zenon

-----------------------------------------------------------------------------
\* cpus[] is zeroed when the boot begins, so SchedInv holds: no flag is set, no
\* task is queued and sched_lock is free.
LEMMA InitInv ==
  Init => SchedInv
<1> SUFFICES ASSUME Init PROVE SchedInv
  BY Zenon
<1> USE NAssumption, CpuFacts DEF Init
<1>1. TypeOK
  BY DEF TypeOK, Main, Irq, InSetup, Flag
<1>2. BootOrder
  <2>1. main[Bsp] = "smp_init" /\ i = 1 /\ i \in 1..N
    OBVIOUS
  <2>2. \A c \in Cpu \ {Bsp} : main[c] = "off" /\ ~(c < i)
    BY DEF Cpu, Bsp
  <2> QED
    BY <2>1, <2>2, Zenon DEF BootOrder
<1>3. RecordSet
  BY Zenon DEF RecordSet, Enabled, Queued, After
<1>4. FlagsExact
  BY Zenon DEF FlagsExact, Enabled, InSchedule, After
<1>5. LockExact
  BY Zenon DEF LockExact
<1>6. QueueBuilt
  BY Zenon DEF QueueBuilt, QueueExact, Queued, After
<1>7. OwnTask
  BY Zenon DEF OwnTask, NoTask
<1>8. AssertionsHold
  BY Zenon DEF AssertionsHold, Torn
<1> QED
  BY <1>1, <1>2, <1>3, <1>4, <1>5, <1>6, <1>7, <1>8, Zenon DEF SchedInv

\* SchedInv is kept by every step of every CPU.
LEMMA NextInv ==
  ASSUME ~LateCores, SchedInv, [Next]_vars
  PROVE  SchedInv'
<1>1. CASE BootStep
  BY <1>1, KeepsStartCore, KeepsCoreStarted, KeepsEnqueueSkip, KeepsEnqueueNext, KeepsEnqueuePush,
     KeepsEnqueueUnlock, KeepsFlagSkip, KeepsFlagSet, KeepsFlagWrite, Zenon DEF BootStep, sched_init
<1>2. CASE CoreMissing \/ EnqueueLock
  BY <1>2, KeepsCoreMissing, KeepsEnqueueLock, Zenon
<1>3. ASSUME NEW c \in Cpu, Setup(c) PROVE SchedInv'
  BY <1>3, Keepsap_main, KeepsEnable, KeepsSetCurrent, KeepsMemset, KeepsAffinity, KeepsAspace, Zenon DEF Setup
<1>4. ASSUME NEW c \in Cpu, Timer(c) \/ SchedLock(c) PROVE SchedInv'
  BY <1>4, KeepsTimer, KeepsSchedLock, Zenon
<1>5. ASSUME NEW c \in Cpu, Handler(c) PROVE SchedInv'
  BY <1>5, KeepsSetWrite, KeepsTick, KeepsQuantumLeft, KeepsQuantumOver, KeepsWalk,
     KeepsSchedUnlock, KeepsEoi, KeepsClear, KeepsClearWrite, Zenon DEF Handler
<1>6. CASE UNCHANGED vars
  <2> USE <1>6 DEF SchedInv, vars
  <2>1. TypeOK' /\ BootOrder'
    BY SMTT(60) DEF TypeOK, BootOrder
  <2>3. OwnTask' /\ AssertionsHold'
    BY SMTT(60) DEF OwnTask, NoTask, AssertionsHold, Torn
  <2>2. RecordSet' /\ FlagsExact' /\ LockExact' /\ QueueBuilt'
    BY ZenonT(30) DEF RecordSet, FlagsExact, Enabled, LockExact, QueueBuilt, QueueExact
  <2> QED
    BY <2>1, <2>2, <2>3, Zenon
<1> QED
  BY <1>1, <1>2, <1>3, <1>4, <1>5, <1>6, Zenon DEF Next

-----------------------------------------------------------------------------
\* SchedInv holds in every state of a boot without late cores, torn updates of
\* the flags included: the boot order, the records smp_setup fills in, the queue
\* sched_init builds and the holder of sched_lock are as the code relies on.
THEOREM SchedSafe ==
  ~LateCores => (Spec => []SchedInv)
<1> SUFFICES ASSUME ~LateCores PROVE Spec => []SchedInv
  BY Zenon
<1>1. Init => SchedInv
  BY InitInv, Zenon
<1>2. SchedInv /\ [Next]_vars => SchedInv'
  BY NextInv, Zenon
<1> QED
  BY <1>1, <1>2, PTL DEF Spec

\* Outside __sched_next no task is the current task of two CPUs.
THEOREM TaskOnOneCpu ==
  ~LateCores => (Spec => []OneCpuPerTask)
<1> SUFFICES ASSUME ~LateCores PROVE Spec => []OneCpuPerTask
  BY Zenon
<1>1. SchedInv => OneCpuPerTask
  BY Zenon DEF SchedInv, OwnTask, OneCpuPerTask
<1>2. Spec => []SchedInv
  BY SchedSafe, Zenon
<1> QED
  BY <1>1, <1>2, PTL

\* A CPU in __sched_next, which holds sched_lock, has a task to stop at.
THEOREM WalkCanEnd ==
  ~LateCores => (Spec => []WalkHasTarget)
<1> SUFFICES ASSUME ~LateCores PROVE Spec => []WalkHasTarget
  BY Zenon
<1>1. SchedInv => WalkHasTarget
  <2> SUFFICES ASSUME SchedInv, NEW c \in Cpu, irq[c] = "walk"
               PROVE  /\ QueueExact /\ main[Bsp] \in After
                      /\ MayRun(c, c) /\ status[c] = "READY"
    BY Zenon DEF WalkHasTarget
  <2>1. QueueExact /\ main[Bsp] \in After /\ c \in allowed[c]
    BY WalkFacts, Zenon
  <2>2. status[c] = "READY"
    BY Zenon DEF SchedInv, OwnTask
  <2> QED
    BY <2>1, <2>2, Zenon DEF MayRun
<1>2. Spec => []SchedInv
  BY SchedSafe, Zenon
<1> QED
  BY <1>1, <1>2, PTL

\* A timer interrupt never spins for the sched_lock its own CPU holds.
THEOREM TimerNeverSelfDeadlocks ==
  ~LateCores => (Spec => []NoSelfDeadlock)
<1> SUFFICES ASSUME ~LateCores PROVE Spec => []NoSelfDeadlock
  BY Zenon
<1>1. SchedInv => NoSelfDeadlock
  <2> SUFFICES ASSUME SchedInv, NEW c \in Cpu, irq[c] = "spin"
               PROVE  lock # c
    BY Zenon DEF NoSelfDeadlock
  <2>1. main[Bsp] \in After
    BY Zenon DEF SchedInv, FlagsExact, InSchedule
  <2> QED
    BY <2>1, Zenon DEF SchedInv, LockExact, After
<1>2. Spec => []SchedInv
  BY SchedSafe, Zenon
<1> QED
  BY <1>1, <1>2, PTL

\* No assertion of the boot, of __sched_next and of arch_task_switch fails.  What
\* stops the kernel is a core that does not answer, a tick between the enabling of
\* its CPU and the setting of its current task, or, on a CPU other than the boot CPU
\* and after sched_init has begun to update the flags of the others, a torn update.
THEOREM NoAssertionFails ==
  ~LateCores => (Spec => []AssertionsHold)
<1> SUFFICES ASSUME ~LateCores PROVE Spec => []AssertionsHold
  BY Zenon
<1>1. SchedInv => AssertionsHold
  BY Zenon DEF SchedInv
<1>2. Spec => []SchedInv
  BY SchedSafe, Zenon
<1> QED
  BY <1>1, <1>2, PTL
=============================================================================
