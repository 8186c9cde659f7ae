----------------------------- MODULE AhciProofs -----------------------------
(***************************************************************************)
(* The AHCI driver with one caller, for every set of ports, every number   *)
(* of slots and sectors and every overlap of the I/O buffers.              *)
(***************************************************************************)
EXTENDS Ahci, FiniteSetTheorems, TLAPS

Status == {"DHRE", "TFES"}
Labels == Idle \cup {"prepare", "busy", "issue", "poll", "wait", "sub", "check", "capacity", "panic"}
Bytes == Data \cup {Zero, Info}
Commands == [kind : Kinds \cup {"none"}, lba : Lba]
Calls == [kind : Kinds \cup {"none"}, port : Port, lba : Lba, img : Images, slot : Slot]

\* The variables keep their types.  (Which port the handler takes for the one
\* that has interrupted is left open.)
TypeOK ==
  /\ io \in Nat
  /\ ci \in [Port -> SUBSET Slot]
  /\ is \in [Port -> SUBSET Status]
  /\ table \in [Port -> [Slot -> Commands]]
  /\ iocache \in [Area -> Bytes]
  /\ disk \in [Port -> [Lba -> Images]]
  /\ pend \in BOOLEAN
  /\ irq = [at |-> irq.at, p |-> irq.p, s |-> irq.s]
  /\ irq.at \in {"off", "post", "ack"} /\ irq.s \subseteq Status
  /\ pc \in [Cpu -> Labels]
  /\ call \in [Cpu -> Calls]
  /\ user \subseteq Cpu
  /\ ready \subseteq Port

\* Where the caller is, and what it has asked for.
Where == pc[Boot]
Req == call[Boot]

\* The only command that can be issued is the caller's own, and only while it waits.
OneCommand ==
  \A e \in Port : ci[e] \subseteq IF Where \in {"wait", "poll"} /\ e = Req.port THEN {Req.slot} ELSE {}

\* The stations of a completion on its way to sem_wait, while the kernel boots: in the
\* slot; in the status of the port, with the handler before sem_post or at the wrong
\* port; in the semaphore with the status not yet cleared; and with it cleared.
Others == \A e \in Port \ {Req.port} : is[e] = {}
Flying ==
  /\ ci[Req.port] = {Req.slot} /\ io = 0 /\ Others /\ is[Req.port] = {}
  /\ irq.at = "off" /\ ~pend
Latched ==
  /\ ci[Req.port] = {} /\ io = 0 /\ Others /\ "DHRE" \in is[Req.port]
  /\ \/ irq.at = "off"
     \/ irq.at = "post" /\ ~pend /\ irq.s = (IF irq.p = Req.port THEN is[Req.port] ELSE {})
     \/ irq.at = "ack" /\ ~pend /\ irq.p # Req.port /\ irq.s = {}
Posted ==
  /\ ci[Req.port] = {} /\ io = 1 /\ Others /\ "DHRE" \in is[Req.port]
  /\ irq.at = "ack" /\ ~pend /\ irq.p = Req.port /\ irq.s = is[Req.port]
Settled(n) ==
  /\ ci[Req.port] = {} /\ io = n /\ Others /\ "DHRE" \notin is[Req.port]
  /\ irq.at = "off" /\ ~pend
AtRest ==
  /\ io = 0 /\ irq.at = "off" /\ ~pend
  /\ \A e \in Port : is[e] \subseteq IF Where = "panic" THEN {"TFES"} ELSE {}

\* Which stations go with which place of the caller.
Boots ==
  Boot \notin user =>
    /\ Where # "poll"
    /\ Where = "wait" => Flying \/ Latched \/ Posted \/ Settled(1)
    /\ Where = "sub" => Settled(1)
    /\ Where = "check" => Settled(0)
    /\ Where \notin {"wait", "sub", "check"} => AtRest

\* A system call polls: it never waits for the semaphore.
UserPolls == Boot \in user => Where \notin {"wait", "sub"}

\* The command in the slot is the caller's.  Until the HBA has finished it the data to
\* be written is in the buffer; after that the port reports an error, or the data is
\* where it belongs, and stays there until the call has returned.
Moved ==
  /\ Req.kind = "read" => Fetch(Req.port) = disk[Req.port][Req.lba]
  /\ Req.kind = "write" => disk[Req.port][Req.lba] = Req.img
Written == Req.kind = "write" => Fetch(Req.port) = Req.img
Transferred ==
  /\ Where \notin Idle \cup {"panic"} => Req.kind # "none"
  /\ Where \in {"busy", "issue", "wait", "sub", "poll", "check"} =>
       table[Req.port][Req.slot] = [kind |-> Req.kind, lba |-> Req.lba]
  /\ Where \in {"busy", "issue"} => Written
  /\ Where \in {"wait", "sub", "poll", "check"} =>
       IF Req.slot \in ci[Req.port] THEN Written ELSE "TFES" \in is[Req.port] \/ Moved
  /\ Where = "done" => /\ Req.kind = "read" => Req.img = disk[Req.port][Req.lba]
                       /\ Req.kind = "write" => disk[Req.port][Req.lba] = Req.img

AhciInv == TypeOK /\ OneCommand /\ Boots /\ UserPolls /\ Transferred

\* The kernel has one task, so that all calls of the driver are made by one CPU.
OneCaller == Cpu = {Boot}

-----------------------------------------------------------------------------
\* A set of naturals that is not empty has a least element.
LEMMA LeastExists ==
  ASSUME NEW S \in SUBSET Nat, S # {}
  PROVE  \E x \in S : \A y \in S : x =< y
<1>1. PICK x \in S : \A y \in S : ~(<<y, x>> \in OpToRel(<, Nat))
  BY NatLessThanWellFounded, WFMin, Zenon
<1>2. ASSUME NEW y \in S, ~(x =< y) PROVE FALSE
  <2>1. y < x /\ y \in Nat /\ x \in Nat
    BY <1>2
  <2>2. <<y, x>> \in OpToRel(<, Nat)
    BY <2>1, Zenon DEF OpToRel
  <2> QED
    BY <1>1, <2>2, Zenon
<1> QED
  BY <1>2, Zenon

\* __builtin_ffs finds one of the bits that are set.
LEMMA MinMember == ASSUME NEW S \in SUBSET Nat, S # {} PROVE Min(S) \in S
BY LeastExists, Zenon DEF Min

\* No port is above the highest.
LEMMA MaxPort == Max(Port) \in Port /\ \A d \in Port : d =< Max(Port)
<1> DEFINE S == {31 - d : d \in Port}
<1>1. Port \subseteq 0..31 /\ Port # {}
  BY AhciAssumption, Zenon
<1>2. S \in SUBSET Nat /\ S # {}
  <2>1. \A d \in Port : 31 - d \in Nat
    BY <1>1
  <2>2. S \subseteq Nat
    BY <2>1, Zenon
  <2>3. PICK d \in Port : TRUE
    BY <1>1, Zenon
  <2>4. 31 - d \in S
    BY <2>3, Zenon
  <2> QED
    BY <2>2, <2>4, Zenon
<1>3. PICK x \in S : \A y \in S : x =< y
  BY <1>2, LeastExists, Zenon
<1>4. PICK m \in Port : x = 31 - m
  BY <1>3, Zenon
<1>5. \A d \in Port : m >= d
  <2> SUFFICES ASSUME NEW d \in Port PROVE m >= d
    BY Zenon
  <2>1. 31 - m =< 31 - d
    BY <1>3, <1>4, Zenon
  <2> QED
    BY <1>1, <2>1
<1>6. \E z \in Port : \A d \in Port : z >= d
  BY <1>5, Zenon
<1>7. Max(Port) \in Port /\ \A d \in Port : Max(Port) >= d
  BY <1>6, Zenon DEF Max
<1> QED
  BY <1>1, <1>7, Zenon

\* The buffer of a port is inside the I/O area.
LEMMA BufferInArea ==
  ASSUME NEW d \in Port, NEW u \in Unit
  PROVE  Buffer(d) + u \in Area /\ Buffer(d) + u \in InBuffer(d) /\ Buffer(d) \in Nat
<1>1. d \in Nat /\ Max(Port) \in Nat /\ d =< Max(Port) /\ Stride \in Nat /\ Sector \in Nat
  <2>1. Max(Port) \in Port /\ d =< Max(Port)
    BY MaxPort, Zenon
  <2>2. Port \subseteq Nat /\ Stride \in Nat /\ Sector \in Nat
    BY AhciAssumption
  <2> QED
    BY <2>1, <2>2, Zenon
<1>2. d * Stride \in Nat /\ Max(Port) * Stride \in Nat /\ d * Stride =< Max(Port) * Stride
  BY <1>1
<1>3. u \in Nat /\ u =< Sector - 1
  BY <1>1 DEF Unit
<1> DEFINE x == d * Stride
           y == Max(Port) * Stride
<1> HIDE DEF x, y
<1>4. x \in Nat /\ y \in Nat /\ x =< y
  BY <1>2, Zenon DEF x, y
<1>5. x + u \in 0..(y + Sector - 1) /\ x + u \in x..(x + Sector - 1)
  BY <1>1, <1>3, <1>4
<1> QED
  BY <1>4, <1>5, Zenon DEF x, y, Buffer, InBuffer, Area

\* What is put in the buffer of a port is fetched from it, whatever overlaps it.
LEMMA FetchFill ==
  ASSUME TypeOK, NEW d \in Port, NEW img \in Images
  PROVE  /\ Fill(d, img) \in [Area -> Bytes]
         /\ iocache' = Fill(d, img) => Fetch(d)' = img
<1>1. ASSUME NEW a \in InBuffer(d) PROVE a - Buffer(d) \in Unit
  <2>1. Buffer(d) \in Nat /\ Sector \in Nat \ {0}
    <3>1. 0 \in Unit
      BY AhciAssumption DEF Unit
    <3> QED
      BY <3>1, BufferInArea, AhciAssumption, Zenon
  <2> QED
    BY <2>1 DEF InBuffer, Unit
<1>2. Fill(d, img) \in [Area -> Bytes]
  BY <1>1, Zenon DEF Fill, TypeOK, Images, Bytes
<1>3. ASSUME iocache' = Fill(d, img) PROVE Fetch(d)' = img
  <2>1. ASSUME NEW u \in Unit PROVE iocache'[Buffer(d) + u] = img[u]
    <3> DEFINE a == Buffer(d) + u
    <3>1. Buffer(d) \in Nat /\ u \in Nat
      BY BufferInArea DEF Unit
    <3>2. a \in Area /\ a \in InBuffer(d)
      BY BufferInArea, Zenon
    <3>3. a - Buffer(d) = u
      BY <3>1
    <3> HIDE DEF a
    <3>4. iocache'[a] = img[u]
      BY <1>3, <3>2, <3>3, Zenon DEF Fill
    <3> QED
      BY <3>4, Zenon DEF a
  <2>2. Fetch(d)' = [u \in Unit |-> iocache'[Buffer(d) + u]]
    BY Zenon DEF Fetch, Buffer
  <2> QED
    BY <2>1, <2>2, Zenon DEF Images
<1> QED
  BY <1>2, <1>3, Zenon

\* A buffer holds a sector.
LEMMA FetchType == ASSUME TypeOK, NEW d \in Port PROVE Fetch(d) \in Images
BY BufferInArea, Zenon DEF Fetch, TypeOK, Images, Bytes

\* The slots, ports and images that Init and init() start from are among those there are.
LEMMA Constants ==
  /\ Boot \in Cpu /\ Port # {} /\ Port \subseteq Nat /\ 0 \in Slot /\ NoCmd.lba \in Lba
  /\ Image(Zero) \in Images /\ Image(Info) \in Images /\ \A v \in Data : Image(v) \in Images
  /\ NoCmd \in Commands /\ NoCall \in Calls
<1>1. Boot \in Cpu /\ Port # {} /\ Port \subseteq Nat /\ 0 \in Slot
  BY AhciAssumption DEF Slot
<1>2. NoCmd.lba \in Lba /\ NoCmd \in Commands
  BY AhciAssumption, Zenon DEF NoCmd, Commands
<1>3. Image(Zero) \in Images /\ Image(Info) \in Images /\ \A v \in Data : Image(v) \in Images
  BY Zenon DEF Image, Images
<1>4. Min(Port) \in Port
  BY <1>1, MinMember, Zenon
<1>5. NoCall \in Calls
  BY <1>1, <1>2, <1>3, <1>4, Zenon DEF NoCall, Calls
<1> QED
  BY <1>1, <1>2, <1>3, <1>5, Zenon

\* sem_init and the reset HBA leave nothing on its way.
LEMMA InitInv == OneCaller /\ Init => AhciInv
<1> SUFFICES ASSUME OneCaller, Init PROVE AhciInv
  BY Zenon
<1>1. TypeOK
  <2>1. disk \in [Port -> [Lba -> Images]]
    <3>1. {Image(v) : v \in Data} \subseteq Images
      BY Constants, Zenon
    <3> QED
      BY <3>1, Zenon DEF Init
  <2>2. table \in [Port -> [Slot -> Commands]] /\ call \in [Cpu -> Calls]
    BY Constants, Zenon DEF Init
  <2>3. irq = [at |-> irq.at, p |-> irq.p, s |-> irq.s] /\ irq.at = "off" /\ irq.s = {}
    BY Zenon DEF Init
  <2>4. pc \in [Cpu -> Labels] /\ iocache \in [Area -> Bytes]
    BY Zenon DEF Init, Labels, Idle, Bytes
  <2>5. io \in Nat /\ ci \in [Port -> SUBSET Slot] /\ is \in [Port -> SUBSET Status]
        /\ pend \in BOOLEAN /\ user \subseteq Cpu /\ ready \subseteq Port
    BY Zenon DEF Init
  <2> QED
    BY <2>1, <2>2, <2>3, <2>4, <2>5, Zenon DEF TypeOK
<1>2. Where = "idle" /\ Req = NoCall
  BY Constants, Zenon DEF Init, Where, Req
<1>3. OneCommand
  BY <1>2, Zenon DEF Init, OneCommand
<1>4. Boots /\ UserPolls
  BY <1>2, Zenon DEF Init, Boots, AtRest, UserPolls
<1>5. Transferred
  BY <1>2, Zenon DEF Transferred, Idle
<1> QED
  BY <1>1, <1>3, <1>4, <1>5, Zenon DEF AhciInv

\* What the caller and its request look like.
LEMMA Types ==
  ASSUME TypeOK
  PROVE  /\ Where \in Labels /\ Req \in Calls /\ Req.port \in Port /\ Req.slot \in Slot
         /\ Req.lba \in Lba /\ Req.img \in Images /\ Req.kind \in Kinds \cup {"none"}
BY Constants, Zenon DEF TypeOK, Where, Req, Calls

\* A step of the caller to another place.
LEMMA GotoPlace ==
  ASSUME TypeOK, NEW label \in Labels, Goto(Boot, label)
  PROVE  Where' = label /\ pc' \in [Cpu -> Labels]
BY Constants, Zenon DEF TypeOK, Goto, Where

\* A call that takes a slot finds the port at rest: with one caller nothing of an earlier
\* command is left when the next begins.
LEMMA StartInv ==
  ASSUME AhciInv, Where \in Idle \cup {"capacity"}, irq.at = "off",
         NEW kind \in Kinds, NEW d \in Port, NEW lba \in Lba, NEW img \in Images, NEW slot \in Slot,
         Start(Boot, kind, d, lba, img, slot)
  PROVE  AhciInv'
<1>1. TypeOK /\ OneCommand /\ Boots
  BY Zenon DEF AhciInv
<1>2. Where' = "prepare" /\ pc' \in [Cpu -> Labels]
  BY <1>1, GotoPlace, Zenon DEF Start, Labels
<1>3. call' \in [Cpu -> Calls]
  BY <1>1, Zenon DEF TypeOK, Start, Calls
<1>4. TypeOK'
  BY <1>1, <1>2, <1>3, Zenon DEF TypeOK, Start
<1>5. Where \notin {"wait", "poll", "sub", "check", "panic"}
  BY Zenon DEF Idle
<1>6. OneCommand'
  BY <1>1, <1>2, <1>5, Zenon DEF OneCommand, Start
<1>7. Boots'
  BY <1>1, <1>2, <1>5, Zenon DEF Boots, AtRest, Start
<1>8. UserPolls' /\ Transferred'
  <2>1. Req'.kind # "none"
    BY <1>1, Constants, Zenon DEF TypeOK, Start, Req, Kinds
  <2> QED
    BY <1>2, <2>1, Zenon DEF UserPolls, Transferred
<1> QED
  BY <1>4, <1>6, <1>7, <1>8, Zenon DEF AhciInv

\* sata_read, sata_write and satapi_read, up to the choice of a slot.
LEMMA TransferInv ==
  ASSUME AhciInv, NEW kind \in {"read", "write"}, NEW d \in Port, NEW lba \in Lba, NEW img \in Images,
         Transfer(Boot, kind, d, lba, img)
  PROVE  AhciInv'
<1>1. Where \in Idle /\ irq.at = "off"
  BY Zenon DEF Transfer, Runs, Where
<1>2. FreeSlot(d) \in SUBSET Slot /\ Slot \in SUBSET Nat
  BY AhciAssumption DEF FreeSlot, Slot
<1>3. CASE FreeSlot(d) # {}
  <2>1. Min(FreeSlot(d)) \in Slot
    BY <1>2, <1>3, MinMember, Zenon
  <2>2. Start(Boot, kind, d, lba, img, Min(FreeSlot(d)))
    BY <1>3, Zenon DEF Transfer
  <2> QED
    BY <1>1, <2>1, <2>2, StartInv, Zenon DEF Kinds
<1>4. CASE FreeSlot(d) = {}
  <2>1. ci[d] = {}
    BY <1>1, Zenon DEF AhciInv, OneCommand, Idle
  <2> QED
    BY <1>4, <2>1, Constants, Zenon DEF FreeSlot
<1> QED
  BY <1>3, <1>4, Zenon

\* Writing the header, the table and the buffer: no command is issued that the stores
\* could change under the HBA, whichever buffers overlap.
LEMMA PrepareInv ==
  ASSUME AhciInv, Prepare(Boot)
  PROVE  AhciInv'
<1>1. TypeOK /\ OneCommand /\ Boots /\ Transferred
  BY Zenon DEF AhciInv
<1>2. Where = "prepare" /\ irq.at = "off" /\ call' = call /\ Req' = Req
      /\ UNCHANGED <<io, ci, is, disk, pend, irq, user, ready>>
  BY Zenon DEF Prepare, At, Runs, Where, Req
<1>3. Where' = "busy" /\ pc' \in [Cpu -> Labels]
  BY <1>1, GotoPlace, Zenon DEF Prepare, Labels
<1>4. Req.port \in Port /\ Req.slot \in Slot /\ Req.lba \in Lba /\ Req.img \in Images
      /\ Req.kind \in Kinds \cup {"none"}
  BY <1>1, Types, Zenon
<1>5. PICK d \in Port, img \in Images :
        d = Req.port /\ img = IF Req.kind = "write" THEN Req.img ELSE Image(Zero)
  BY <1>4, Constants, Zenon
<1>6. iocache' = Fill(d, img)
  BY <1>5, Zenon DEF Prepare, Req
<1>7. iocache' \in [Area -> Bytes] /\ Fetch(d)' = img
  BY <1>1, <1>6, FetchFill, Zenon
<1>8. table' \in [Port -> [Slot -> Commands]]
      /\ table'[Req.port][Req.slot] = [kind |-> Req.kind, lba |-> Req.lba]
  BY <1>1, <1>4, Zenon DEF Prepare, TypeOK, Commands, Req
<1>9. TypeOK'
  BY <1>1, <1>2, <1>3, <1>7, <1>8, Zenon DEF TypeOK
<1>10. OneCommand'
  BY <1>1, <1>2, <1>3, Zenon DEF OneCommand
<1>11. Boots' /\ UserPolls'
  BY <1>1, <1>2, <1>3, Zenon DEF Boots, AtRest, UserPolls
<1>12. Written'
  <2>1. Req'.kind = "write" => Fetch(d)' = Req'.img
    BY <1>2, <1>5, <1>7, Zenon
  <2>2. Req'.port = d
    BY <1>2, <1>5, Zenon
  <2> QED
    BY <2>1, <2>2, Zenon DEF Written
<1>13. Transferred'
  BY <1>1, <1>2, <1>3, <1>8, <1>12, Zenon DEF Transferred, Idle
<1> QED
  BY <1>9, <1>10, <1>11, <1>13, Zenon DEF AhciInv

\* The loop on BSY and DRQ changes nothing.
LEMMA AwaitDeviceInv ==
  ASSUME AhciInv, AwaitDevice(Boot)
  PROVE  AhciInv'
<1>1. TypeOK /\ OneCommand /\ Boots /\ Transferred
  BY Zenon DEF AhciInv
<1>2. Where = "busy" /\ Req' = Req
      /\ UNCHANGED <<io, ci, is, table, iocache, disk, pend, irq, call, user, ready>>
  BY Zenon DEF AwaitDevice, At, Runs, Where, Req
<1>3. Where' = "issue" /\ pc' \in [Cpu -> Labels]
  BY <1>1, GotoPlace, Zenon DEF AwaitDevice, Labels
<1>4. TypeOK'
  BY <1>1, <1>2, <1>3, Zenon DEF TypeOK
<1>5. OneCommand'
  BY <1>1, <1>2, <1>3, Zenon DEF OneCommand
<1>6. Boots' /\ UserPolls'
  BY <1>1, <1>2, <1>3, Zenon DEF Boots, AtRest, UserPolls
<1>7. Transferred'
  BY <1>1, <1>2, <1>3, Zenon DEF Transferred, Idle, Written, Fetch
<1> QED
  BY <1>4, <1>5, <1>6, <1>7, Zenon DEF AhciInv

\* The store to ci: a completion starts on its way.
LEMMA IssueInv ==
  ASSUME AhciInv, OneCaller, Issue(Boot)
  PROVE  AhciInv'
<1>1. TypeOK /\ OneCommand /\ Boots /\ Transferred
  BY Zenon DEF AhciInv
<1>2. Where = "issue" /\ Req' = Req
      /\ UNCHANGED <<io, is, table, iocache, disk, pend, irq, call, user, ready>>
  BY Zenon DEF Issue, At, Runs, Where, Req
<1>3. Where' = (IF Boot \in user THEN "poll" ELSE "wait") /\ pc' \in [Cpu -> Labels]
  BY <1>1, GotoPlace DEF Issue, Waiting, Labels
<1>4. Req.port \in Port /\ Req.slot \in Slot
  BY <1>1, Types, Zenon
<1>5. \A e \in Port : ci[e] = {}
  BY <1>1, <1>2, Zenon DEF OneCommand
<1>6. ci' \in [Port -> SUBSET Slot] /\ ci'[Req.port] = {Req.slot}
      /\ \A e \in Port \ {Req.port} : ci'[e] = {}
  BY <1>1, <1>4, <1>5, Zenon DEF Issue, TypeOK, Req
<1>7. TypeOK'
  BY <1>1, <1>2, <1>3, <1>6, Zenon DEF TypeOK
<1>8. OneCommand'
  BY <1>2, <1>3, <1>6, Zenon DEF OneCommand
<1>9. Boots'
  <2> SUFFICES ASSUME Boot \notin user PROVE Boots'
    BY <1>2, Zenon DEF Boots
  <2>1. AtRest
    BY <1>1, <1>2, Zenon DEF Boots
  <2>2. Flying'
    BY <1>2, <1>4, <1>6, <2>1, Zenon DEF AtRest, Flying, Others
  <2> QED
    BY <1>3, <2>2, Zenon DEF Boots
<1>10. UserPolls'
  BY <1>2, <1>3, Zenon DEF UserPolls
<1>11. Transferred'
  BY <1>1, <1>2, <1>3, <1>6, Zenon DEF Transferred, Idle, Written, Fetch
<1> QED
  BY <1>7, <1>8, <1>9, <1>10, <1>11, Zenon DEF AhciInv

\* The polling loop of a system call ends once the HBA has cleared the slot.
LEMMA PollInv ==
  ASSUME AhciInv, Poll(Boot)
  PROVE  AhciInv'
<1>1. TypeOK /\ OneCommand /\ Boots /\ Transferred
  BY Zenon DEF AhciInv
<1>2. Where = "poll" /\ Req' = Req /\ Req.slot \notin ci[Req.port]
      /\ UNCHANGED <<io, ci, is, table, iocache, disk, pend, irq, call, user, ready>>
  BY Zenon DEF Poll, At, Runs, Where, Req
<1>3. Where' = "check" /\ pc' \in [Cpu -> Labels]
  BY <1>1, GotoPlace, Zenon DEF Poll, Labels
<1>4. TypeOK'
  BY <1>1, <1>2, <1>3, Zenon DEF TypeOK
<1>5. OneCommand'
  BY <1>1, <1>2, <1>3, Zenon DEF OneCommand
<1>6. Boots' /\ UserPolls'
  BY <1>1, <1>2, <1>3, Zenon DEF Boots, UserPolls
<1>7. Transferred'
  BY <1>1, <1>2, <1>3, Zenon DEF Transferred, Idle, Moved, Fetch
<1> QED
  BY <1>4, <1>5, <1>6, <1>7, Zenon DEF AhciInv

\* sem_wait leaves its loop only when the completion is in the semaphore, and then the
\* handler has returned.
LEMMA SemLoadInv ==
  ASSUME AhciInv, SemLoad(Boot)
  PROVE  AhciInv'
<1>1. TypeOK /\ OneCommand /\ Boots /\ UserPolls /\ Transferred
  BY Zenon DEF AhciInv
<1>2. Where = "wait" /\ irq.at = "off" /\ io # 0 /\ Req' = Req
      /\ UNCHANGED <<io, ci, is, table, iocache, disk, pend, irq, call, user, ready>>
  BY Zenon DEF SemLoad, SemNotEmpty, At, Runs, Where, Req
<1>3. Where' = "sub" /\ pc' \in [Cpu -> Labels]
  BY <1>1, GotoPlace, Zenon DEF SemLoad, Labels
<1>4. TypeOK'
  BY <1>1, <1>2, <1>3, Zenon DEF TypeOK
<1>5. Boot \notin user /\ Settled(1)
  BY <1>1, <1>2, Zenon DEF UserPolls, Boots, Flying, Latched, Posted
<1>6. OneCommand'
  BY <1>1, <1>2, <1>3, <1>5, Zenon DEF OneCommand, Settled
<1>7. Boots' /\ UserPolls'
  BY <1>2, <1>3, <1>5, Zenon DEF Boots, UserPolls, Settled, Others
<1>8. Transferred'
  BY <1>1, <1>2, <1>3, <1>5, Zenon DEF Transferred, Idle, Settled, Moved, Written, Fetch
<1> QED
  BY <1>4, <1>6, <1>7, <1>8, Zenon DEF AhciInv

\* sem_wait takes the one completion there is: the semaphore is empty again.
LEMMA SemSubInv ==
  ASSUME AhciInv, SemSub(Boot)
  PROVE  AhciInv'
<1>1. TypeOK /\ OneCommand /\ Boots /\ UserPolls /\ Transferred
  BY Zenon DEF AhciInv
<1>2. Where = "sub" /\ io' = io - 1 /\ Req' = Req
      /\ UNCHANGED <<ci, is, table, iocache, disk, pend, irq, call, user, ready>>
  BY Zenon DEF SemSub, At, Runs, Where, Req
<1>3. Where' = "check" /\ pc' \in [Cpu -> Labels]
  BY <1>1, GotoPlace, Zenon DEF SemSub, Labels
<1>4. Boot \notin user /\ Settled(1)
  BY <1>1, <1>2, Zenon DEF UserPolls, Boots
<1>5. io' = 0
  BY <1>2, <1>4 DEF Settled
<1>6. TypeOK'
  BY <1>1, <1>2, <1>3, <1>5 DEF TypeOK
<1>7. OneCommand'
  BY <1>1, <1>2, <1>3, Zenon DEF OneCommand
<1>8. Boots' /\ UserPolls'
  BY <1>2, <1>3, <1>4, <1>5, Zenon DEF Boots, UserPolls, Settled, Others
<1>9. Transferred'
  BY <1>1, <1>2, <1>3, Zenon DEF Transferred, Idle, Moved, Written, Fetch
<1> QED
  BY <1>6, <1>7, <1>8, <1>9, Zenon DEF AhciInv

\* The end of a call: TFES gives up, otherwise the data is where it belongs.
LEMMA CheckInv ==
  ASSUME AhciInv, Check(Boot)
  PROVE  AhciInv'
<1> DEFINE ok == "TFES" \notin is[Req.port]
           more == Req.kind = "identify" /\ Req.port \in Atapi
           asked == Req.kind \in {"identify", "capacity"}
           moves == Req.kind \in {"read", "write"}
<1>1. TypeOK /\ OneCommand /\ Boots /\ UserPolls /\ Transferred
  BY Zenon DEF AhciInv
<1>2. Where = "check" /\ UNCHANGED <<io, ci, table, iocache, disk, pend, irq, user>>
  BY Zenon DEF Check, At, Where
<1>3. Req.port \in Port /\ Req.slot \in Slot /\ Req \in Calls /\ Req.kind \in Kinds \cup {"none"}
  BY <1>1, Types, Zenon
<1>4. is' = (IF ~ok /\ moves THEN [is EXCEPT ![Req.port] = {}] ELSE is)
      /\ call' = (IF ok /\ Req.kind # "write" THEN [call EXCEPT ![Boot].img = Fetch(Req.port)] ELSE call)
      /\ ready' = (IF ok /\ ~more /\ asked THEN ready \cup {Req.port} ELSE ready)
  BY Zenon DEF Check, Req
<1>5. Fetch(Req.port) \in Images
  BY <1>1, <1>3, FetchType, Zenon
<1>6. call' \in [Cpu -> Calls] /\ Req'.port = Req.port /\ Req'.kind = Req.kind /\ Req'.lba = Req.lba
      /\ Req'.slot = Req.slot
      /\ Req'.img = IF ok /\ Req.kind # "write" THEN Fetch(Req.port) ELSE Req.img
  BY <1>1, <1>4, <1>5, Constants, Zenon DEF TypeOK, Req, Calls
<1>7. is' \in [Port -> SUBSET Status] /\ ready' \subseteq Port
  BY <1>1, <1>3, <1>4, Zenon DEF TypeOK
<1>10. Req.kind # "none"
  BY <1>1, <1>2, Zenon DEF Transferred, Idle
<1>8. ASSUME NEW label \in Labels \ {"prepare", "busy", "issue", "poll", "wait", "sub", "check", "idle"},
             Goto(Boot, label),
             label = "done" => ok,
             label = "error" => ~ok /\ moves,
             label = "capacity" => ok
      PROVE  AhciInv'
  <2>1. Where' = label /\ pc' \in [Cpu -> Labels]
    BY <1>1, <1>8, GotoPlace, Zenon
  <2>2. TypeOK'
    BY <1>1, <1>2, <1>6, <1>7, <2>1, Zenon DEF TypeOK
  <2>3. \A e \in Port : ci[e] = {}
    BY <1>1, <1>2, Zenon DEF OneCommand
  <2>4. OneCommand'
    BY <1>2, <2>3, Zenon DEF OneCommand
  <2>5. UserPolls'
    BY <2>1, <1>8, Zenon DEF UserPolls
  <2>6. Boots'
    <3> SUFFICES ASSUME Boot \notin user PROVE AtRest'
      BY <1>2, <1>8, <2>1, Zenon DEF Boots
    <3>1. Settled(0)
      BY <1>1, <1>2, Zenon DEF Boots
    <3>2. is[Req.port] \subseteq {"TFES"}
      BY <1>1, <1>3, <3>1, Zenon DEF Settled, TypeOK, Status
    <3>3. ASSUME NEW e \in Port PROVE is'[e] \subseteq IF label = "panic" THEN {"TFES"} ELSE {}
      <4>1. CASE e # Req.port
        BY <1>1, <1>3, <1>4, <3>1, <4>1, Zenon DEF Settled, Others, TypeOK
      <4>2. CASE e = Req.port
        <5>1. CASE ok
          BY <1>4, <3>2, <4>2, <5>1, Zenon
        <5>2. CASE ~ok /\ moves
          BY <1>1, <1>3, <1>4, <4>2, <5>2, Zenon DEF TypeOK
        <5>3. CASE ~ok /\ ~moves
          <6>1. label = "panic"
            BY <1>8, <5>3, Zenon DEF Labels, Idle
          <6> QED
            BY <1>4, <3>2, <4>2, <5>3, <6>1, Zenon
        <5> QED
          BY <5>1, <5>2, <5>3, Zenon
      <4> QED
        BY <4>1, <4>2, Zenon
    <3> QED
      BY <1>2, <2>1, <3>1, <3>3, Zenon DEF AtRest, Settled
  <2>7. Transferred'
    <3>1. Req.slot \notin ci[Req.port]
      BY <1>3, <2>3, Zenon
    <3>2. ok => Moved
      BY <1>1, <1>2, <3>1, Zenon DEF Transferred
    <3>3. label = "done" => /\ Req'.kind = "read" => Req'.img = disk'[Req'.port][Req'.lba]
                            /\ Req'.kind = "write" => disk'[Req'.port][Req'.lba] = Req'.img
      BY <1>2, <1>6, <1>8, <3>2, Zenon DEF Moved
    <3> QED
      BY <1>6, <1>8, <1>10, <2>1, <3>3, Zenon DEF Transferred
  <2> QED
    BY <2>2, <2>4, <2>5, <2>6, <2>7, Zenon DEF AhciInv
<1>9. Goto(Boot, CASE ~ok /\ asked -> "panic" [] ~ok /\ moves -> "error"
                   [] ok /\ more -> "capacity" [] ok /\ ~more -> "done")
  BY Zenon DEF Check, Req
<1>11. CASE ~ok /\ asked
  BY <1>8, <1>9, <1>11, Zenon DEF Labels
<1>12. CASE ~ok /\ moves
  BY <1>8, <1>9, <1>12, Zenon DEF Labels, Idle
<1>13. CASE ok /\ more
  BY <1>8, <1>9, <1>13, Zenon DEF Labels
<1>14. CASE ok /\ ~more
  BY <1>8, <1>9, <1>14, Zenon DEF Labels, Idle
<1> QED
  BY <1>3, <1>10, <1>11, <1>12, <1>13, <1>14, Zenon DEF Kinds

\* Leaving kmain between two calls.
LEMMA EnterUserInv ==
  ASSUME AhciInv, OneCaller, EnterUser(Boot)
  PROVE  AhciInv'
<1>1. TypeOK /\ OneCommand
  BY Zenon DEF AhciInv
<1>2. Where \in Idle /\ user' = user \cup {Boot} /\ Req' = Req
      /\ UNCHANGED <<io, ci, is, table, iocache, disk, pend, irq, call, ready>>
  BY Zenon DEF EnterUser, Where, Req
<1>3. Where' = "idle" /\ pc' \in [Cpu -> Labels]
  BY <1>1, GotoPlace, Zenon DEF EnterUser, Labels, Idle
<1>4. TypeOK'
  BY <1>1, <1>2, <1>3, Constants, Zenon DEF TypeOK
<1>5. OneCommand'
  BY <1>1, <1>2, <1>3, Zenon DEF OneCommand, Idle
<1>6. Boots' /\ UserPolls' /\ Transferred'
  BY <1>2, <1>3, Zenon DEF Boots, UserPolls, Transferred, Idle
<1> QED
  BY <1>4, <1>5, <1>6, Zenon DEF AhciInv

\* init() makes the next device.
LEMMA IdentifyInv ==
  ASSUME AhciInv, Identify
  PROVE  AhciInv'
<1>1. Where \in Idle /\ irq.at = "off"
  BY Zenon DEF Identify, Runs, Where
<1>2. NextDevice \in Port
  <2>1. Port \ ready # {}
    BY Zenon DEF Identify, AhciInv, TypeOK
  <2>2. \A S \in SUBSET Port : S # {} => Min(S) \in Port
    BY Constants, MinMember, Zenon
  <2> QED
    BY <2>1, <2>2, Zenon DEF NextDevice
<1> QED
  BY <1>1, <1>2, Constants, StartInv, Zenon DEF Identify, Kinds

\* satapi_init goes on to its second command.
LEMMA CapacityInv ==
  ASSUME AhciInv, Capacity
  PROVE  AhciInv'
<1>1. Where = "capacity" /\ irq.at = "off" /\ Req.port \in Port
  BY Types, Zenon DEF Capacity, At, Runs, Where, AhciInv
<1> QED
  BY <1>1, Constants, StartInv, Zenon DEF Capacity, Kinds, Req

\* The HBA moves the data, clears the slot and raises the status; with one command
\* issued the buffer it uses is the caller's.
LEMMA HbaInv ==
  ASSUME AhciInv, NEW d \in Port, NEW b \in Slot, NEW ok \in BOOLEAN, HbaComplete(d, b, ok)
  PROVE  AhciInv'
<1>1. TypeOK /\ OneCommand /\ Boots /\ UserPolls /\ Transferred
  BY Zenon DEF AhciInv
<1>2. b \in ci[d] /\ Where' = Where /\ Req' = Req /\ UNCHANGED <<io, table, irq, pc, call, user, ready>>
  BY Zenon DEF HbaComplete, Where, Req
<1>3. Where \in {"wait", "poll"} /\ d = Req.port /\ b = Req.slot
  BY <1>1, <1>2, Zenon DEF OneCommand
<1>4. ci[d] = {b} /\ table[d][b] = [kind |-> Req.kind, lba |-> Req.lba] /\ Written
      /\ \A e \in Port \ {d} : ci[e] = {}
  BY <1>1, <1>2, <1>3, Zenon DEF OneCommand, Transferred
<1>5. ci' \in [Port -> SUBSET Slot] /\ (\A e \in Port : ci'[e] = {})
  BY <1>1, <1>4, Zenon DEF HbaComplete, TypeOK
<1>6. is' \in [Port -> SUBSET Status] /\ "DHRE" \in is'[d] /\ (~ok => "TFES" \in is'[d])
      /\ \A e \in Port \ {d} : is'[e] = is[e]
  BY <1>1, Zenon DEF HbaComplete, TypeOK, Status
<1>7. pend' \in BOOLEAN
  BY <1>1, Zenon DEF HbaComplete, Latch, LineHigh, TypeOK
<1>8. Req.lba \in Lba /\ Req.img \in Images
  BY <1>1, Types, Zenon
<1>9. table[d][b].kind = Req.kind /\ table[d][b].lba = Req.lba
  BY <1>4
<1>10. iocache' \in [Area -> Bytes] /\ disk' \in [Port -> [Lba -> Images]] /\ (ok => Moved')
  <2>1. CASE ok /\ Req.kind = "read"
    <3>1. disk' = disk /\ iocache' = Fill(d, disk[d][Req.lba])
      BY <1>9, <2>1, Zenon DEF HbaComplete
    <3>2. PICK img \in Images : img = disk[d][Req.lba]
      BY <1>1, <1>8, Zenon DEF TypeOK
    <3>3. iocache' \in [Area -> Bytes] /\ Fetch(d)' = img
      BY <1>1, <3>1, <3>2, FetchFill, Zenon
    <3> QED
      BY <1>1, <1>2, <1>3, <2>1, <3>1, <3>2, <3>3, Zenon DEF Moved, TypeOK
  <2>2. CASE ok /\ Req.kind = "write"
    <3>1. iocache' = iocache /\ disk' = [disk EXCEPT ![d][Req.lba] = Fetch(d)]
      BY <1>9, <2>2, Zenon DEF HbaComplete
    <3>2. Fetch(d) = Req.img
      BY <1>3, <1>4, <2>2, Zenon DEF Written
    <3>3. disk' \in [Port -> [Lba -> Images]] /\ disk'[d][Req.lba] = Req.img
      BY <1>1, <1>8, <3>1, <3>2, Zenon DEF TypeOK
    <3> QED
      BY <1>1, <1>2, <1>3, <2>2, <3>1, <3>3, Zenon DEF Moved, TypeOK
  <2>3. CASE ok /\ Req.kind \in {"identify", "capacity"}
    <3>1. disk' = disk /\ iocache' = Fill(d, Image(Info))
      BY <1>9, <2>3, Zenon DEF HbaComplete
    <3>2. iocache' \in [Area -> Bytes]
      BY <1>1, <3>1, Constants, FetchFill, Zenon
    <3> QED
      BY <1>1, <1>2, <2>3, <3>1, <3>2, Zenon DEF Moved, TypeOK
  <2>4. CASE ~ok
    BY <1>1, <2>4, Zenon DEF HbaComplete, TypeOK
  <2>5. Req.kind \in Kinds
    BY <1>1, <1>3, Types, Zenon DEF Transferred, Idle
  <2> QED
    BY <2>1, <2>2, <2>3, <2>4, <2>5, Zenon DEF Kinds
<1>11. TypeOK'
  BY <1>1, <1>2, <1>5, <1>6, <1>7, <1>10, Zenon DEF TypeOK
<1>12. OneCommand'
  BY <1>5, Zenon DEF OneCommand
<1>13. Boots'
  <2> SUFFICES ASSUME Boot \notin user PROVE Boots'
    BY <1>2, Zenon DEF Boots
  <2>1. Where = "wait"
    BY <1>1, <1>3, Zenon DEF Boots
  <2>2. Flying
    BY <1>1, <1>3, <1>4, <2>1, Zenon DEF Boots, Latched, Posted, Settled
  <2>3. Latched'
    BY <1>2, <1>3, <1>5, <1>6, <2>2, Zenon DEF Flying, Latched, Others
  <2> QED
    BY <1>2, <2>1, <2>3, Zenon DEF Boots
<1>14. UserPolls'
  BY <1>1, <1>2, Zenon DEF UserPolls
<1>15. Transferred'
  <2>1. Req'.slot \notin ci'[Req'.port] /\ ("TFES" \in is'[Req'.port] \/ Moved')
    BY <1>2, <1>3, <1>5, <1>6, <1>10, Zenon
  <2> QED
    BY <1>1, <1>2, <1>3, <2>1, Zenon DEF Transferred
<1> QED
  BY <1>11, <1>12, <1>13, <1>14, <1>15, Zenon DEF AhciInv

\* The handler looks for the port that has interrupted, and may take the wrong one.
LEMMA IrqEnterInv ==
  ASSUME AhciInv, IrqEnter
  PROVE  AhciInv'
<1>1. TypeOK /\ OneCommand /\ Boots /\ UserPolls /\ Transferred
  BY Zenon DEF AhciInv
<1>2. pend /\ irq.at = "off" /\ pend' = FALSE /\ Where' = Where /\ Req' = Req
      /\ UNCHANGED <<io, ci, is, table, iocache, disk, pc, call, user, ready>>
  BY Zenon DEF IrqEnter, Where, Req
<1>3. irq' = [at |-> "post", p |-> IrqPort, s |-> StatusOf(IrqPort)]
  BY Zenon DEF IrqEnter
<1>4. irq'.at = "post" /\ irq'.p = IrqPort /\ irq'.s = StatusOf(IrqPort)
      /\ irq' = [at |-> irq'.at, p |-> irq'.p, s |-> irq'.s]
  BY <1>3, Zenon
<1>5. StatusOf(IrqPort) \subseteq Status
  BY <1>1, Zenon DEF StatusOf, TypeOK
<1>6. TypeOK'
  BY <1>1, <1>2, <1>4, <1>5, Zenon DEF TypeOK
<1>7. OneCommand' /\ UserPolls'
  BY <1>1, <1>2, Zenon DEF OneCommand, UserPolls
<1>8. Transferred'
  BY <1>1, <1>2, Zenon DEF Transferred, Moved, Written, Fetch
<1>9. Boots'
  <2> SUFFICES ASSUME Boot \notin user PROVE Boots'
    BY <1>2, Zenon DEF Boots
  <2>1. Where = "wait" /\ Latched
    BY <1>1, <1>2, Zenon DEF Boots, AtRest, Settled, Flying, Posted
  <2>2. irq'.s = IF irq'.p = Req.port THEN is[Req.port] ELSE {}
    BY <1>1, <1>4, <2>1, Types, Zenon DEF Latched, Others, StatusOf
  <2>3. Latched'
    BY <1>2, <1>4, <2>1, <2>2, Zenon DEF Latched, Others
  <2> QED
    BY <1>2, <2>1, <2>3, Zenon DEF Boots
<1> QED
  BY <1>6, <1>7, <1>8, <1>9, Zenon DEF AhciInv

\* sem_post for the port the handler took: only the right one has DHRE.
LEMMA IrqPostInv ==
  ASSUME AhciInv, IrqPost
  PROVE  AhciInv'
<1>1. TypeOK /\ OneCommand /\ Boots /\ UserPolls /\ Transferred
  BY Zenon DEF AhciInv
<1>2. irq.at = "post" /\ Where' = Where /\ Req' = Req
      /\ UNCHANGED <<ci, is, table, iocache, disk, pend, pc, call, user, ready>>
  BY Zenon DEF IrqPost, Where, Req
<1>3. irq'.at = "ack" /\ irq'.p = irq.p /\ irq'.s = irq.s
      /\ irq' = [at |-> irq'.at, p |-> irq'.p, s |-> irq'.s]
  <2>1. irq = [at |-> irq.at, p |-> irq.p, s |-> irq.s]
    BY <1>1, Zenon DEF TypeOK
  <2>2. irq' = [irq EXCEPT !.at = "ack"]
    BY Zenon DEF IrqPost
  <2>3. irq' = [at |-> "ack", p |-> irq.p, s |-> irq.s]
    BY <2>1, <2>2, Zenon
  <2> QED
    BY <2>3, Zenon
<1>4. io' = IF "DHRE" \in irq.s THEN io + 1 ELSE io
  BY Zenon DEF IrqPost, Completed
<1>5. TypeOK'
  BY <1>1, <1>2, <1>3, <1>4 DEF TypeOK
<1>6. OneCommand' /\ UserPolls'
  BY <1>1, <1>2, Zenon DEF OneCommand, UserPolls
<1>7. Transferred'
  BY <1>1, <1>2, Zenon DEF Transferred, Moved, Written, Fetch
<1>8. Boots'
  <2> SUFFICES ASSUME Boot \notin user PROVE Boots'
    BY <1>2, Zenon DEF Boots
  <2>1. Where = "wait" /\ Latched
    BY <1>1, <1>2, Zenon DEF Boots, AtRest, Settled, Flying, Posted
  <2>2. irq.s = (IF irq.p = Req.port THEN is[Req.port] ELSE {}) /\ ~pend /\ io = 0
    BY <1>2, <2>1, Zenon DEF Latched
  <2>3. CASE irq.p = Req.port
    <3>1. io' = 1
      BY <1>4, <2>1, <2>2, <2>3 DEF Latched
    <3>2. Posted'
      BY <1>2, <1>3, <2>1, <2>2, <2>3, <3>1, Zenon DEF Latched, Posted, Others
    <3> QED
      BY <1>2, <2>1, <3>2, Zenon DEF Boots
  <2>4. CASE irq.p # Req.port
    <3>1. io' = 0
      BY <1>4, <2>2, <2>4, Zenon
    <3>2. Latched'
      BY <1>2, <1>3, <2>1, <2>2, <2>4, <3>1, Zenon DEF Latched, Others
    <3> QED
      BY <1>2, <2>1, <3>2, Zenon DEF Boots
  <2> QED
    BY <2>3, <2>4, Zenon
<1> QED
  BY <1>5, <1>6, <1>7, <1>8, Zenon DEF AhciInv

\* The handler clears what it has seen, except TFES, which the caller still has to see.
LEMMA IrqAckInv ==
  ASSUME AhciInv, IrqAck
  PROVE  AhciInv'
<1>1. TypeOK /\ OneCommand /\ Boots /\ UserPolls /\ Transferred
  BY Zenon DEF AhciInv
<1>2. irq.at = "ack" /\ Where' = Where /\ Req' = Req
      /\ UNCHANGED <<io, ci, table, iocache, disk, pend, pc, call, user, ready>>
  BY Zenon DEF IrqAck, Where, Req
<1>3. irq'.at = "off" /\ irq'.s = {}
      /\ irq' = [at |-> irq'.at, p |-> irq'.p, s |-> irq'.s]
  <2>1. irq' = [at |-> "off", p |-> -1, s |-> {}]
    BY Zenon DEF IrqAck
  <2> QED
    BY <2>1, Zenon
<1>4. is' \in [Port -> SUBSET Status]
      /\ \A e \in Port : is'[e] = IF e = irq.p THEN is[e] \ (irq.s \ {"TFES"}) ELSE is[e]
  <2>1. CASE irq.p \in Port
    BY <1>1, <2>1, Zenon DEF IrqAck, Acked, TypeOK
  <2>2. CASE irq.p \notin Port
    BY <1>1, <2>2, Zenon DEF IrqAck, TypeOK
  <2> QED
    BY <2>1, <2>2, Zenon
<1>5. TypeOK'
  BY <1>1, <1>2, <1>3, <1>4, Zenon DEF TypeOK
<1>6. OneCommand' /\ UserPolls'
  BY <1>1, <1>2, Zenon DEF OneCommand, UserPolls
<1>7. Transferred'
  <2>1. \A e \in Port : "TFES" \in is[e] => "TFES" \in is'[e]
    BY <1>4, Zenon
  <2>2. Req.port \in Port
    BY <1>1, Types, Zenon
  <2> QED
    BY <1>1, <1>2, <2>1, <2>2, Zenon DEF Transferred, Moved, Written, Fetch
<1>8. Boots'
  <2> SUFFICES ASSUME Boot \notin user PROVE Boots'
    BY <1>2, Zenon DEF Boots
  <2>1. Where = "wait" /\ (Latched \/ Posted)
    BY <1>1, <1>2, Zenon DEF Boots, AtRest, Settled, Flying
  <2>2. Req.port \in Port
    BY <1>1, Types, Zenon
  <2>3. CASE Latched
    <3>1. is'[Req.port] = is[Req.port] /\ Others'
      BY <1>2, <1>4, <2>2, <2>3, Zenon DEF Latched, Others
    <3>2. Latched'
      BY <1>2, <1>3, <2>3, <3>1, Zenon DEF Latched
    <3> QED
      BY <1>2, <2>1, <3>2, Zenon DEF Boots
  <2>4. CASE Posted
    <3>1. "DHRE" \notin is'[Req.port] /\ Others'
      BY <1>2, <1>4, <2>2, <2>4 DEF Posted, Others
    <3>2. Settled(1)'
      BY <1>2, <1>3, <2>4, <3>1, Zenon DEF Posted, Settled
    <3> QED
      BY <1>2, <2>1, <3>2, Zenon DEF Boots
  <2> QED
    BY <2>1, <2>3, <2>4, Zenon
<1> QED
  BY <1>5, <1>6, <1>7, <1>8, Zenon DEF AhciInv

\* Every step keeps the invariant.
LEMMA NextInv == OneCaller /\ AhciInv /\ [Next]_vars => AhciInv'
<1> SUFFICES ASSUME OneCaller, AhciInv, [Next]_vars PROVE AhciInv'
  BY Zenon
<1>1. ASSUME NEW c \in Cpu, Step(c) PROVE AhciInv'
  <2>1. c = Boot
    BY Zenon DEF OneCaller
  <2> QED
    BY <1>1, <2>1, PrepareInv, AwaitDeviceInv, IssueInv, PollInv, SemLoadInv, SemSubInv, CheckInv, Zenon DEF Step
<1>2. ASSUME NEW c \in Cpu, EnterUser(c) PROVE AhciInv'
  BY <1>2, EnterUserInv, Zenon DEF OneCaller
<1>3. ASSUME NEW c \in Cpu, NEW d \in Port, NEW lba \in Lba,
             sata_read(c, d, lba) \/ satapi_read(c, d, lba) \/ \E v \in Data : sata_write(c, d, lba, v)
      PROVE  AhciInv'
  <2>1. c = Boot
    BY Zenon DEF OneCaller
  <2> QED
    BY <1>3, <2>1, Constants, TransferInv, Zenon DEF sata_read, satapi_read, sata_write
<1>4. CASE Identify
  BY <1>4, IdentifyInv, Zenon
<1>5. CASE Capacity
  BY <1>5, CapacityInv, Zenon
<1>6. CASE Hba
  BY <1>6, HbaInv, Zenon DEF Hba
<1>7. CASE Irq
  BY <1>7, IrqEnterInv, IrqPostInv, IrqAckInv, Zenon DEF Irq
<1>8. CASE UNCHANGED vars
  <2> USE <1>8 DEF vars
  <2>1. TypeOK' /\ OneCommand'
    BY Zenon DEF AhciInv, TypeOK, OneCommand, Where, Req
  <2>2. Boots' /\ UserPolls'
    BY Zenon DEF AhciInv, Boots, UserPolls, Where, Req, Flying, Latched, Posted, Settled, AtRest, Others
  <2>3. Transferred'
    BY Zenon DEF AhciInv, Transferred, Where, Req, Moved, Written, Fetch
  <2> QED
    BY <2>1, <2>2, <2>3, Zenon DEF AhciInv
<1> QED
  BY <1>1, <1>2, <1>3, <1>4, <1>5, <1>6, <1>7, <1>8, Zenon DEF Next

\* With one caller, every completion is at exactly one station between the slot and
\* sem_wait, and the data moved is the caller's.
THEOREM DriverSafe == OneCaller => (Spec => []AhciInv)
<1> SUFFICES ASSUME OneCaller PROVE Spec => []AhciInv
  BY Zenon
<1>1. Init => AhciInv
  BY InitInv, Zenon
<1>2. AhciInv /\ [Next]_vars => AhciInv'
  BY NextInv, Zenon
<1> QED
  BY <1>1, <1>2, PTL DEF Spec

\* With one caller, sata_read and satapi_read never return anything but what the sector
\* holds, although the buffers of neighbouring ports overlap.
THEOREM ReadsExact == OneCaller => (Spec => []ReadExact)
<1> SUFFICES ASSUME OneCaller PROVE Spec => []ReadExact
  BY Zenon
<1>1. AhciInv => ReadExact
  BY Zenon DEF OneCaller, AhciInv, Transferred, ReadExact, Where, Req
<1>2. Spec => []AhciInv
  BY DriverSafe, Zenon
<1> QED
  BY <1>1, <1>2, PTL

\* With one caller, a sata_write that returns has put its data on the disk.
THEOREM WritesDurable == OneCaller => (Spec => []WriteDurable)
<1> SUFFICES ASSUME OneCaller PROVE Spec => []WriteDurable
  BY Zenon
<1>1. AhciInv => WriteDurable
  BY Zenon DEF OneCaller, AhciInv, Transferred, WriteDurable, Where, Req
<1>2. Spec => []AhciInv
  BY DriverSafe, Zenon
<1> QED
  BY <1>1, <1>2, PTL

\* While the kernel boots, the semaphore neither loses nor gains a completion: what is
\* issued, latched or posted is what sem_wait still waits for.
THEOREM CompletionsNeverLost == OneCaller => (Spec => []CompletionsMatch)
<1> SUFFICES ASSUME OneCaller PROVE Spec => []CompletionsMatch
  BY Zenon
<1>1. AhciInv => CompletionsMatch
  <2> SUFFICES ASSUME AhciInv, user = {}
               PROVE  Tokens = Cardinality({c \in Cpu : pc[c] \in {"wait", "sub"}})
    BY Zenon DEF CompletionsMatch
  <2>1. TypeOK /\ OneCommand /\ Boots /\ Boot \notin user
    BY Zenon DEF AhciInv
  <2>2. Req.port \in Port /\ Req.slot \in Slot
    BY <2>1, Types, Zenon
  <2>3. Cardinality({}) = 0 /\ Cardinality({Boot}) = 1 /\ Cardinality({Req.port}) = 1
        /\ Cardinality({<<Req.port, Req.slot>>}) = 1
    BY FS_EmptySet, FS_Singleton, Zenon
  <2>4. CASE Where \notin {"wait", "sub"}
    <3>1. {c \in Cpu : pc[c] \in {"wait", "sub"}} = {}
      BY <2>4, Zenon DEF OneCaller, Where
    <3>2. Issued = {}
      BY <2>1, <2>4, Zenon DEF OneCommand, Issued, Boots
    <3>3. Unposted = {} /\ io = 0
      BY <2>1, <2>4, Zenon DEF Boots, Settled, AtRest, Unposted, Others
    <3> QED
      BY <2>3, <3>1, <3>2, <3>3, SMTT(30) DEF Tokens
  <2>5. CASE Where \in {"wait", "sub"}
    <3>1. {c \in Cpu : pc[c] \in {"wait", "sub"}} = {Boot}
      BY <2>5, Constants, Zenon DEF OneCaller, Where
    <3>2. Flying \/ Latched \/ Posted \/ Settled(1)
      BY <2>1, <2>5, Zenon DEF Boots
    <3>3. CASE Flying
      <4>1. Issued = {<<Req.port, Req.slot>>}
        BY <2>1, <2>2, <3>3 DEF OneCommand, Issued, Flying
      <4>2. Unposted = {} /\ io = 0
        BY <3>3, Zenon DEF Flying, Unposted, Others
      <4> QED
        BY <2>3, <3>1, <4>1, <4>2 DEF Tokens
    <3>5. CASE Latched
      <4>1. Unposted = {Req.port} /\ io = 0
        BY <2>2, <3>5, Zenon DEF Latched, Unposted, Others
      <4>2. Issued = {}
        BY <2>1, <3>5, Zenon DEF OneCommand, Issued, Latched
      <4> QED
        BY <2>3, <3>1, <4>1, <4>2 DEF Tokens
    <3>6. CASE Posted \/ Settled(1)
      <4>1. Unposted = {} /\ io = 1
        BY <3>6, Zenon DEF Posted, Settled, Unposted, Others
      <4>2. Issued = {}
        BY <2>1, <3>6, Zenon DEF OneCommand, Issued, Posted, Settled
      <4> QED
        BY <2>3, <3>1, <4>1, <4>2 DEF Tokens
    <3> QED
      BY <3>2, <3>3, <3>5, <3>6, Zenon
  <2> QED
    BY <2>4, <2>5, Zenon
<1>2. Spec => []AhciInv
  BY DriverSafe, Zenon
<1> QED
  BY <1>1, <1>2, PTL
====
