------------------------ MODULE MCPunchTransactions ------------------------
(***************************************************************************)
(* Instances of PunchTransactions: two connections, each serving one       *)
(* request after another, two rows and three client ids.                   *)
(***************************************************************************)
EXTENDS PunchTransactions, TLC

CONSTANTS s1, s2, e1, e2, c1, c2, c3

Symmetry == Permutations({s1, s2}) \cup Permutations({e1, e2})
            \cup Permutations({c1, c3})
=============================================================================
