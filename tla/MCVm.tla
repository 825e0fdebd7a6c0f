-------------------------------- MODULE MCVm --------------------------------
(* Vm on a machine with a handful of pages, for TLC.                       *)
EXTENDS Vm, TLC

\* Free pages have no identity of their own, and page_init's order is not read.
PageSymmetry == Permutations(RamPage)

\* The image at the second page, so that the first and the third are free.
MCImageVa == <<0, 1>>
=============================================================================
