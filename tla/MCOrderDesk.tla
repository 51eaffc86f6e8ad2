----------------------------- MODULE MCOrderDesk -----------------------------
(* OrderDesk for TLC: orders, workers and numbers are model values.         *)
EXTENDS OrderDesk, TLC

Symmetry == Permutations(Orders) \cup Permutations(Workers) \cup Permutations(AmazonNos)
=============================================================================
