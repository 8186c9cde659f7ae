----------------------------- MODULE Ringbuffer -----------------------------
(***************************************************************************)
(* kernel/utils/ringbuffer.c: a byte ring protected by a spinlock, called  *)
(* by several CPUs.  A call spins on rb->lock, then works byte by byte and *)
(* releases the lock.  Only the lock holder touches the ring, so one loop  *)
(* iteration is one step.                                                  *)
(***************************************************************************)
EXTENDS Integers, Sequences, FiniteSets

CONSTANTS Cpu, Byte, Size, Lengths,
          Free       \* value of rb->lock when no CPU holds it

ASSUME SizeAssumption == Size \in Nat \ {0}
ASSUME LengthsAssumption == Lengths \subseteq Nat \ {0}
ASSUME FreeAssumption == Free \notin Cpu
ASSUME ByteAssumption == Byte # {}

VARIABLES buffer,    \* rb->buffer
          head,      \* rb->head: where the next byte goes
          tail,      \* rb->tail: where the oldest byte is
          full,      \* rb->full
          lock,      \* rb->lock, by owner
          pc,        \* what each CPU is doing
          todo,      \* write: the bytes of buf not stored yet
          want,      \* read: how many bytes are still asked for
          got        \* read: the bytes copied to buf so far

ring == <<buffer, head, tail, full>>
ringvars == <<buffer, head, tail, full, lock, pc, todo, want, got>>

Index == 0..(Size - 1)
Msg == UNION {[1..n -> Byte] : n \in Lengths}
Spinning == {"write_spin", "read_spin", "reset_spin"}
Holding == {"write", "read", "reset"}

\* ringbuffer_create: the memory kmalloc returns holds anything.
RingInit ==
  /\ buffer \in [Index -> Byte]
  /\ head = 0 /\ tail = 0 /\ full = FALSE
  /\ lock = Free
  /\ pc = [c \in Cpu |-> "idle"]
  /\ todo = [c \in Cpu |-> <<>>]
  /\ want = [c \in Cpu |-> 0]
  /\ got = [c \in Cpu |-> <<>>]

\* ringbuffer_is_empty
IsEmpty == ~full /\ head = tail

\* ringbuffer_available
Available ==
  IF full THEN Size
  ELSE IF head >= tail THEN head - tail ELSE head - tail + Size

\* spinlock_lock's test-and-set succeeds only on a clear lock.
LockFree == lock = Free

\* spinlock_unlock
UnlockForgotten == UNCHANGED lock
Unlock == lock' = Free

\* Indices advance modulo rb->size.
Step(i) == (i + 1) % Size

\* Where tail is after a byte is stored: a full ring loses its oldest byte.
TailKept == tail
TailAfterStore == IF full THEN Step(tail) ELSE tail

\* rb->full after a byte is taken
FullKept == full
FullAfterTake == FALSE

-----------------------------------------------------------------------------
CallWrite(c, s) ==
  /\ pc[c] = "idle"
  /\ pc' = [pc EXCEPT ![c] = "write_spin"]
  /\ todo' = [todo EXCEPT ![c] = s]
  /\ UNCHANGED <<ring, lock, want, got>>

CallRead(c, n) ==
  /\ pc[c] = "idle"
  /\ pc' = [pc EXCEPT ![c] = "read_spin"]
  /\ want' = [want EXCEPT ![c] = n]
  /\ UNCHANGED <<ring, lock, todo, got>>

CallReset(c) ==
  /\ pc[c] = "idle"
  /\ pc' = [pc EXCEPT ![c] = "reset_spin"]
  /\ UNCHANGED <<ring, lock, todo, want, got>>

\* spinlock_lock at the head of each __lock block
Acquire(c) ==
  /\ pc[c] \in Spinning
  /\ LockFree
  /\ lock' = c
  /\ pc' = [pc EXCEPT ![c] = CASE pc[c] = "write_spin" -> "write"
                               [] pc[c] = "read_spin" -> "read"
                               [] OTHER -> "reset"]
  /\ got' = IF pc[c] = "read_spin" THEN [got EXCEPT ![c] = <<>>] ELSE got
  /\ UNCHANGED <<ring, todo, want>>

\* One iteration of the loop of ringbuffer_write
WriteByte(c) ==
  /\ pc[c] = "write" /\ todo[c] # <<>>
  /\ buffer' = [buffer EXCEPT ![head] = Head(todo[c])]
  /\ tail' = TailAfterStore
  /\ head' = Step(head)
  /\ full' = (head' = tail')
  /\ todo' = [todo EXCEPT ![c] = Tail(@)]
  /\ UNCHANGED <<lock, pc, want, got>>

WriteDone(c) ==
  /\ pc[c] = "write" /\ todo[c] = <<>>
  /\ Unlock
  /\ pc' = [pc EXCEPT ![c] = "idle"]
  /\ UNCHANGED <<ring, todo, want, got>>

\* One iteration of the loop of ringbuffer_read
ReadByte(c) ==
  /\ pc[c] = "read" /\ want[c] > 0 /\ ~IsEmpty
  /\ got' = [got EXCEPT ![c] = Append(@, buffer[tail])]
  /\ want' = [want EXCEPT ![c] = @ - 1]
  /\ full' = FullAfterTake
  /\ tail' = Step(tail)
  /\ UNCHANGED <<buffer, head, lock, pc, todo>>

\* The loop ends after size bytes or breaks on an empty ring.
ReadDone(c) ==
  /\ pc[c] = "read" /\ (want[c] = 0 \/ IsEmpty)
  /\ Unlock
  /\ pc' = [pc EXCEPT ![c] = "idle"]
  /\ want' = [want EXCEPT ![c] = 0]
  /\ UNCHANGED <<ring, todo, got>>

\* ringbuffer_reset
ResetDone(c) ==
  /\ pc[c] = "reset"
  /\ head' = 0 /\ tail' = 0 /\ full' = FALSE
  /\ Unlock
  /\ pc' = [pc EXCEPT ![c] = "idle"]
  /\ UNCHANGED <<buffer, todo, want, got>>

Call(c) ==
  \/ \E s \in Msg : CallWrite(c, s)
  \/ \E n \in Lengths : CallRead(c, n)
  \/ CallReset(c)

InLock(c) == WriteByte(c) \/ WriteDone(c) \/ ReadByte(c) \/ ReadDone(c) \/ ResetDone(c)

RingNext == \E c \in Cpu : Call(c) \/ Acquire(c) \/ InLock(c)

RingSpec == RingInit /\ [][RingNext]_ringvars

\* A CPU inside the lock keeps running: the holder is not descheduled for ever.
FairSpec == RingSpec /\ \A c \in Cpu : WF_ringvars(InLock(c))

-----------------------------------------------------------------------------
\* The variables keep their types: head and tail never leave rb->buffer.
TypeOK ==
  /\ buffer \in [Index -> Byte]
  /\ head \in Index /\ tail \in Index /\ full \in BOOLEAN
  /\ lock \in Cpu \cup {Free}
  /\ pc \in [Cpu -> {"idle"} \cup Spinning \cup Holding]
  /\ todo \in [Cpu -> Seq(Byte)]
  /\ want \in [Cpu -> Nat]
  /\ got \in [Cpu -> Seq(Byte)]

\* The spinlock keeps every other CPU out of the ring while one is in a
\* __lock block of ringbuffer.c, and is free when none is.
LockOwner == \A c \in Cpu : pc[c] \in Holding <=> lock = c

\* rb->full can only be set when head has caught up with tail: a set flag
\* with head # tail would make ringbuffer_available report Size bytes of which
\* some were never written.
FullMeansWrapped == full => head = tail

\* Inductive invariant of the ring.
RingInv == TypeOK /\ LockOwner /\ FullMeansWrapped

\* The bytes a reader would get now, oldest first.
Content == [i \in 1..Available |-> buffer[(tail + i - 1) % Size]]

\* The abstract queue and results: a call takes effect when it gets the lock,
\* so the bytes its holder has still to move count as moved.
LastN(s, n) == IF Len(s) =< n THEN s ELSE SubSeq(s, Len(s) - n + 1, Len(s))
Pending(c) == SubSeq(Content, 1, IF want[c] =< Len(Content) THEN want[c] ELSE Len(Content))
AbsQueue ==
  IF lock = Free THEN Content
  ELSE CASE pc[lock] = "write" -> LastN(Content \o todo[lock], Size)
         [] pc[lock] = "read" -> SubSeq(Content, Len(Pending(lock)) + 1, Len(Content))
         [] pc[lock] = "reset" -> <<>>
         [] OTHER -> Content
AbsResult == [c \in Cpu |-> IF pc[c] = "read" THEN got[c] \o Pending(c) ELSE got[c]]

Abs == INSTANCE AtomicRing WITH q <- AbsQueue, res <- AbsResult

\* Each call of the ring buffer is atomic: whatever the interleaving of the
\* CPUs, a write appends all its bytes in one block, overwriting the oldest,
\* and a read returns one contiguous block of the oldest bytes.
AtomicCalls == Abs!Spec

\* A __lock block of the ring buffer always ends: its loops are bounded by the
\* size argument, so the other CPUs' spinning is not in vain.
LockReleased == lock # Free ~> lock = Free
=============================================================================
