-------------------------------- MODULE MCPmm -------------------------------
(* Six pages of 4 bytes in words of two bits: the last page of an odd      *)
(* memory is not covered, one region is reserved in the middle, one does   *)
(* not fit, and the kernel takes the first page.                           *)
EXTENDS Pmm

MCRegions == <<<<12, 3>>, <<26, 4>>>>
=============================================================================
