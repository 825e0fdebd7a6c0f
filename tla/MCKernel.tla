------------------------------ MODULE MCKernel ------------------------------
(* Kernel on a small machine, for TLC.                                     *)
EXTENDS Kernel
=============================================================================
