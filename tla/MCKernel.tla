------------------------------ MODULE MCKernel ------------------------------
(***************************************************************************)
(* Kernel for TLC.  Process numbers are handed out in increasing order and  *)
(* the terminals are probed in increasing order, so no symmetry is sound.   *)
(***************************************************************************)
EXTENDS Kernel
=============================================================================
