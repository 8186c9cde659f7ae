----------------------------- MODULE AtomicRing -----------------------------
(***************************************************************************)
(* What kernel/utils/ringbuffer.c promises its callers (char_write and     *)
(* char_read of drivers/dev/char/main.c): a bounded queue of bytes in      *)
(* which a write call appends ALL of its bytes at once, dropping the       *)
(* oldest ones when there is no room, and a read call removes at once the  *)
(* oldest bytes, as many as it asked for or as there are.                  *)
(***************************************************************************)
EXTENDS Naturals, Sequences

CONSTANTS Cpu,       \* the CPUs that call the ring buffer
          Byte,      \* the values a byte may take
          Size,      \* rb->size
          Lengths    \* the lengths a call may ask for

VARIABLES q,         \* the bytes held, oldest first
          res        \* res[c]: the bytes the last read call of c returned

Msg == UNION {[1..n -> Byte] : n \in Lengths}

LastN(s, n) == IF Len(s) =< n THEN s ELSE SubSeq(s, Len(s) - n + 1, Len(s))

Least(m, n) == IF m =< n THEN m ELSE n

Init == q = <<>> /\ res = [c \in Cpu |-> <<>>]

Write(s) == q' = LastN(q \o s, Size) /\ UNCHANGED res

Read(c, n) ==
  LET k == Least(n, Len(q))
  IN  /\ q' = SubSeq(q, k + 1, Len(q))
      /\ res' = [res EXCEPT ![c] = SubSeq(q, 1, k)]

Reset == q' = <<>> /\ UNCHANGED res

Next == \/ \E s \in Msg : Write(s)
        \/ \E c \in Cpu, n \in Lengths : Read(c, n)
        \/ Reset

Spec == Init /\ [][Next]_<<q, res>>
=============================================================================
