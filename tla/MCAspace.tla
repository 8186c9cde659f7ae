------------------------------ MODULE MCAspace ------------------------------
(* Executables for pages of two bytes: one segment, on a page boundary or  *)
(* not, and code with a data segment that starts in the middle of a page   *)
(* and holds TLS.                                                          *)
EXTENDS Aspace

Load(a, n) == [type |-> "load", vaddr |-> a, memsz |-> n, align |-> P]
Tls(a, n) == [type |-> "tls", vaddr |-> a, memsz |-> n, align |-> 1]
MCProgram == {<<Load(2, 3)>>, <<Load(3, 2)>>, <<Load(2, 2), Load(5, 2), Tls(6, 1)>>}
=============================================================================
