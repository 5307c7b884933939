-------------------------- MODULE MCFstChainIndex --------------------------
(* FstChainIndex with two chains of the smallest size and a longer one.     *)
EXTENDS FstChainIndex
CONSTANTS a, b, c
SmallSize(x) == IF x = c THEN 3 ELSE 2
=============================================================================
