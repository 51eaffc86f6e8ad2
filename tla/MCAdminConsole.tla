---------------------------- MODULE MCAdminConsole ----------------------------
(* AdminConsole for TLC: orders, tabs, workers and numbers are model values.  *)
EXTENDS AdminConsole, TLC

Symmetry == Permutations(Orders) \cup Permutations(Workers)
            \cup Permutations(AmazonNos) \cup Permutations(Tabs)
=============================================================================
