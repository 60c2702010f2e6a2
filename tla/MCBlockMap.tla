----------------------------- MODULE MCBlockMap -----------------------------
(* TLC instances of BlockMap: one direct block, two pointers in a block.   *)
EXTENDS BlockMap, TLC

Alike == Permutations(Files)
=============================================================================
