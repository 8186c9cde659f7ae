----------------------------- MODULE MCBlockDev -----------------------------
(* A disk of five three-byte blocks, and a partition of it from block 1 on,*)
(* at most two blocks to a driver call.  The writes: the inside of a       *)
(* block, bytes on both sides of a block boundary, one block at the start  *)
(* of the device, and four blocks (two runs, from block 0) with a tail.    *)
EXTENDS BlockDev

MCWrites == {<<1, 1>>, <<5, 2>>, <<0, 3>>, <<0, 13>>}
=============================================================================
