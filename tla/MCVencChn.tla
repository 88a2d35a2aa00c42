----------------------------- MODULE MCVencChn -----------------------------
\* Three channels: one of which streams are got while another is created and
\* a third destroyed.
EXTENDS VencChn, TLC
CONSTANTS c1, c2, c3
Symmetry == Permutations(Chns \ {ModChn})
=============================================================================
