------------------------------- MODULE MCFork -------------------------------
EXTENDS Fork, TLC
MCLayout == <<"text", "fd", "stack">>
\* The environments that are forked are alike.
MCSymmetry == Permutations(Env \ {First})
=============================================================================
