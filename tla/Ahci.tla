-------------------------------- MODULE Ahci --------------------------------
(***************************************************************************)
(* The AHCI driver (drivers/platform/pc/block/ahci/main.c) with the one    *)
(* semaphore all its ports share (kernel/ipc/semaphore.c).  A command is   *)
(* built in a free slot, issued, and awaited: kernel code waits on the     *)
(* semaphore that the interrupt handler posts, a system call, which runs   *)
(* with interrupts off, polls the slot instead.  The HBA is external: it   *)
(* completes commands in any order, raises DHRE (and TFES on an error) in  *)
(* the port's status, and drives one edge-triggered interrupt line.        *)
(***************************************************************************)
EXTENDS Integers, FiniteSets, FiniteSetsExt

CONSTANTS Cpu, Boot,    \* Boot ran init(), so the I/O APIC sends it the interrupt
          Port, Atapi,  \* implemented ports, and those whose signature is ATAPI
          NSlots,       \* 32 in the code
          Lba, Data,
          Zero, Info,   \* what memset leaves, and what an identify command returns
          Stride,       \* distance of two I/O buffers, in the unit ...
          Sector,       \* ... in which a sector has this length (16 and 512 bytes)
          MaxPosts      \* bound on the semaphore

ASSUME AhciAssumption ==
  /\ Boot \in Cpu /\ Port \subseteq 0..31 /\ Port # {} /\ Atapi \subseteq Port
  /\ NSlots \in Nat \ {0} /\ Sector \in Nat \ {0} /\ Stride \in Nat
  /\ {Zero, Info} \cap Data = {} /\ Lba # {} /\ Data # {} /\ MaxPosts \in Nat

VARIABLES io,       \* ahci.io
          ci, is,   \* per port: the issued slots, the interrupt status
          table,    \* per port and slot: the command header and table
          iocache,  \* the contiguous I/O area
          disk,
          pend,     \* an edge of the interrupt line is latched in the local APIC
          irq,      \* the handler: where it is and its locals p and s
          pc, call, \* per CPU: where it is, and the arguments and locals of the call
          user,     \* the CPUs that have left kmain: all further calls are system calls
          ready     \* devices whose init has returned

vars == <<io, ci, is, table, iocache, disk, pend, irq, pc, call, user, ready>>

Slot == 0..(NSlots - 1)
Unit == 0..(Sector - 1)
Area == 0..(Max(Port) * Stride + Sector - 1)
Image(v) == [u \in Unit |-> v]
Images == [Unit -> Data \cup {Zero, Info}]

\* AHCI_MEMORY_IOCACHE + (d << 4).
Buffer(d) == d * Stride
InBuffer(d) == Buffer(d)..(Buffer(d) + Sector - 1)
Fill(d, img) == [a \in Area |-> IF a \in InBuffer(d) THEN img[a - Buffer(d)] ELSE iocache[a]]
Fetch(d) == [u \in Unit |-> iocache[Buffer(d) + u]]

NoCmd == [kind |-> "none", lba |-> CHOOSE l \in Lba : TRUE]
Kinds == {"identify", "capacity", "read", "write"}
NoCall == [kind |-> "none", port |-> Min(Port), lba |-> NoCmd.lba, img |-> Image(Zero), slot |-> 0]
Idle == {"idle", "done", "error"}

Init ==
  /\ io = 0                                                  \* sem_init
  /\ ci = [d \in Port |-> {}]
  /\ is = [d \in Port |-> {}]
  /\ table = [d \in Port |-> [b \in Slot |-> NoCmd]]
  /\ iocache = [a \in Area |-> Zero]
  /\ disk \in [Port -> [Lba -> {Image(v) : v \in Data}]]
  /\ pend = FALSE
  /\ irq = [at |-> "off", p |-> -1, s |-> {}]
  /\ pc = [c \in Cpu |-> "idle"]
  /\ call = [c \in Cpu |-> NoCall]
  /\ user = {}
  /\ ready = {}

\* The line is high while some port has a status bit: a step that raises it from
\* low latches an interrupt.
LineHigh(status) == \E d \in Port : status[d] # {}
Latch(status) == pend \/ (LineHigh(status) /\ ~LineHigh(is))

\* A CPU executes the call unless it is Boot and the handler has interrupted it.
Runs(c) == c = Boot => irq.at = "off"
At(c, label) == pc[c] = label /\ Runs(c)
Goto(c, label) == pc' = [pc EXCEPT ![c] = label]

\* b = __builtin_ffs(~(sact | ci)) - 1.
FreeSlot(d) == Slot \ ci[d]

Start(c, kind, d, lba, img, slot) ==
  /\ call' = [call EXCEPT ![c] = [kind |-> kind, port |-> d, lba |-> lba, img |-> img, slot |-> slot]]
  /\ Goto(c, "prepare")
  /\ UNCHANGED <<io, ci, is, table, iocache, disk, pend, irq, user, ready>>

\* The common beginning of the transfers, up to the choice of a slot.
Transfer(c, kind, d, lba, img) ==
  /\ pc[c] \in Idle /\ Runs(c)
  /\ d \in ready
  /\ c \in user => io < MaxPosts
  /\ IF FreeSlot(d) = {}
     THEN /\ Goto(c, "panic")
          /\ UNCHANGED <<io, ci, is, table, iocache, disk, pend, irq, call, user, ready>>
     ELSE Start(c, kind, d, lba, img, Min(FreeSlot(d)))

\* The block operations of the two kinds of device; the steps up to Check are theirs.
sata_read(c, d, lba) == d \notin Atapi /\ Transfer(c, "read", d, lba, Image(Zero))
satapi_read(c, d, lba) == d \in Atapi /\ Transfer(c, "read", d, lba, Image(Zero))
sata_write(c, d, lba, v) == d \notin Atapi /\ Transfer(c, "write", d, lba, Image(v))

\* init() makes the ATA devices, then the ATAPI ones, in port order; sata_init and
\* satapi_init use slot 0 without looking.
NextDevice == LET left == Port \ ready IN Min(IF left \subseteq Atapi THEN left ELSE left \ Atapi)
Identify ==
  /\ pc[Boot] \in Idle /\ Runs(Boot) /\ Boot \notin user
  /\ ready # Port
  /\ Start(Boot, "identify", NextDevice, NoCmd.lba, Image(Zero), 0)
\* The second command of satapi_init.
Capacity ==
  /\ At(Boot, "capacity")
  /\ Start(Boot, "capacity", call[Boot].port, NoCmd.lba, Image(Zero), 0)

\* The command header, the table and the buffer (zeroed, then filled for a write).
Prepare(c) ==
  LET k == call[c]
  IN  /\ At(c, "prepare")
      /\ table' = [table EXCEPT ![k.port][k.slot] = [kind |-> k.kind, lba |-> k.lba]]
      /\ iocache' = Fill(k.port, IF k.kind = "write" THEN k.img ELSE Image(Zero))
      /\ Goto(c, "busy")
      /\ UNCHANGED <<io, ci, is, disk, pend, irq, call, user, ready>>

\* while(tfd & (BSY | DRQ)): the device is busy while it has a command.
AwaitDevice(c) ==
  /\ At(c, "busy")
  /\ ci[call[c].port] = {}
  /\ Goto(c, "issue")
  /\ UNCHANGED <<io, ci, is, table, iocache, disk, pend, irq, call, user, ready>>

\* CPU_FLAGS_INTERRUPT tells a system call, which polls, from kernel code.
PollsAtBoot(c) == IF c \in user THEN "wait" ELSE "poll"
Waiting(c) == IF c \in user THEN "poll" ELSE "wait"
Issue(c) ==
  /\ At(c, "issue")
  /\ ci' = [ci EXCEPT ![call[c].port] = @ \cup {call[c].slot}]
  /\ Goto(c, Waiting(c))
  /\ UNCHANGED <<io, is, table, iocache, disk, pend, irq, call, user, ready>>

Poll(c) ==
  /\ At(c, "poll")
  /\ call[c].slot \notin ci[call[c].port]
  /\ Goto(c, "check")
  /\ UNCHANGED <<io, ci, is, table, iocache, disk, pend, irq, call, user, ready>>

\* sem_wait: the load that ends the loop, then the subtraction.
NeverEmpty == TRUE
SemNotEmpty == io # 0
SemLoad(c) ==
  /\ At(c, "wait")
  /\ SemNotEmpty
  /\ Goto(c, "sub")
  /\ UNCHANGED <<io, ci, is, table, iocache, disk, pend, irq, call, user, ready>>
SemSub(c) ==
  /\ At(c, "sub")
  /\ io' = io - 1
  /\ Goto(c, "check")
  /\ UNCHANGED <<ci, is, table, iocache, disk, pend, irq, call, user, ready>>

\* On a task file error: EIO after writing the whole status back, which clears all of
\* it (a panic while identifying); otherwise the buffer is copied out.
Check(c) ==
  LET k == call[c]
      ok == "TFES" \notin is[k.port]
      more == k.kind = "identify" /\ k.port \in Atapi
  IN  /\ At(c, "check")
      /\ Goto(c, CASE ~ok /\ k.kind \in {"identify", "capacity"} -> "panic"
                   [] ~ok /\ k.kind \in {"read", "write"} -> "error"
                   [] ok /\ more -> "capacity"
                   [] ok /\ ~more -> "done")
      /\ is' = IF ~ok /\ k.kind \in {"read", "write"} THEN [is EXCEPT ![k.port] = {}] ELSE is
      /\ call' = IF ok /\ k.kind # "write" THEN [call EXCEPT ![c].img = Fetch(k.port)] ELSE call
      /\ ready' = IF ok /\ ~more /\ k.kind \in {"identify", "capacity"}
                  THEN ready \cup {k.port} ELSE ready
      /\ UNCHANGED <<io, ci, table, iocache, disk, pend, irq, user>>

\* kmain ends in execve: from here on everything is a system call.
EnterUser(c) ==
  /\ pc[c] \in Idle /\ Runs(c)
  /\ ready = Port
  /\ user' = user \cup {c}
  /\ Goto(c, "idle")
  /\ UNCHANGED <<io, ci, is, table, iocache, disk, pend, irq, call, ready>>

\* The HBA finishes the command of slot b, moving the data unless it fails.
HbaComplete(d, b, ok) ==
  LET cmd == table[d][b]
  IN  /\ b \in ci[d]
      /\ ci' = [ci EXCEPT ![d] = @ \ {b}]
      /\ is' = [is EXCEPT ![d] = @ \cup (IF ok THEN {"DHRE"} ELSE {"DHRE", "TFES"})]
      /\ pend' = Latch(is')
      /\ iocache' = CASE ok /\ cmd.kind = "read" -> Fill(d, disk[d][cmd.lba])
                      [] ok /\ cmd.kind \in {"identify", "capacity"} -> Fill(d, Image(Info))
                      [] OTHER -> iocache
      /\ disk' = IF ok /\ cmd.kind = "write" THEN [disk EXCEPT ![d][cmd.lba] = Fetch(d)] ELSE disk
      /\ UNCHANGED <<io, table, irq, pc, call, user, ready>>

\* irq(): p = hba->is - 1, s = ports[p].is.  A system call of Boot keeps interrupts off.
Bits(S) == MapThenSumSet(LAMBDA d : 2^d, S)
Raised == {d \in Port : is[d] # {}}
IrqPort == Bits(Raised) - 1
StatusOf(p) == IF p \in Port THEN is[p] ELSE {}
IrqEnter ==
  /\ pend /\ irq.at = "off"
  /\ Boot \in user => pc[Boot] \in Idle
  /\ pc[Boot] # "panic"
  /\ pend' = FALSE
  /\ irq' = [at |-> "post", p |-> IrqPort, s |-> StatusOf(IrqPort)]
  /\ UNCHANGED <<io, ci, is, table, iocache, disk, pc, call, user, ready>>

\* if(s & DHRE) sem_post(&ahci.io).
PostAlways == TRUE
Completed == "DHRE" \in irq.s
IrqPost ==
  /\ irq.at = "post"
  /\ io' = IF Completed THEN io + 1 ELSE io
  /\ irq' = [irq EXCEPT !.at = "ack"]
  /\ UNCHANGED <<ci, is, table, iocache, disk, pend, pc, call, user, ready>>

\* ports[p].is = s without TFES (write one to clear); hba->is follows the ports.
AckNothing == {}
Acked == irq.s \ {"TFES"}
IrqAck ==
  /\ irq.at = "ack"
  /\ is' = IF irq.p \in Port THEN [is EXCEPT ![irq.p] = @ \ Acked] ELSE is
  /\ irq' = [at |-> "off", p |-> -1, s |-> {}]
  /\ UNCHANGED <<io, ci, table, iocache, disk, pend, pc, call, user, ready>>

Irq == IrqEnter \/ IrqPost \/ IrqAck
Hba == \E d \in Port, b \in Slot, ok \in BOOLEAN : HbaComplete(d, b, ok)
Step(c) ==
  Prepare(c) \/ AwaitDevice(c) \/ Issue(c) \/ Poll(c) \/ SemLoad(c) \/ SemSub(c) \/ Check(c)
Next ==
  \/ \E c \in Cpu : Step(c) \/ EnterUser(c)
  \/ \E c \in Cpu, d \in Port, lba \in Lba :
       sata_read(c, d, lba) \/ satapi_read(c, d, lba) \/ \E v \in Data : sata_write(c, d, lba, v)
  \/ Identify \/ Capacity
  \/ Hba \/ Irq

Spec == Init /\ [][Next]_vars
\* A CPU keeps executing, the HBA finishes what is issued, a latched interrupt is taken.
FairSpec ==
  /\ Spec
  /\ \A c \in Cpu : WF_vars(Step(c))
  /\ WF_vars(Capacity) /\ WF_vars(Hba) /\ WF_vars(Irq)

-----------------------------------------------------------------------------
\* A read that returns success has returned the sector, as it is on the disk: the
\* wait of sata_read and satapi_read does not end before their own command has.
ReadExact ==
  \A c \in Cpu : pc[c] = "done" /\ call[c].kind = "read"
                 => call[c].img = disk[call[c].port][call[c].lba]

\* A write that returns success is on the disk (sata_write).
WriteDurable ==
  \A c \in Cpu : pc[c] = "done" /\ call[c].kind = "write"
                 => disk[call[c].port][call[c].lba] = call[c].img

\* While the kernel boots, each command issued and not yet awaited is worth exactly one
\* token, in the slot, in the port's status or in the semaphore: no completion is
\* posted twice and none is lost between the handler and sem_wait.
Unposted == {d \in Port : "DHRE" \in is[d] /\ ~(irq.at = "ack" /\ irq.p = d)}
Issued == {x \in Port \X Slot : x[2] \in ci[x[1]]}
Tokens == Cardinality(Issued) + Cardinality(Unposted) + io
CompletionsMatch == user = {} => Tokens = Cardinality({c \in Cpu : pc[c] \in {"wait", "sub"}})

\* Every call of the driver returns, with the data or with EIO, or the kernel panics.
CallsReturn == \A c \in Cpu : pc[c] \notin Idle \cup {"panic"} ~> pc[c] \in Idle \cup {"panic"}
=============================================================================
