------------------------------- MODULE MCVmSmp ------------------------------
(* VmSmp with one user page per environment, for TLC.                      *)
EXTENDS VmSmp, TLC

SmpSymmetry == Permutations(RamPage) \cup Permutations(CPU)
MCImageVa == <<0, 0>>
=============================================================================
