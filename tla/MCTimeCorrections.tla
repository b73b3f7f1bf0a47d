------------------------- MODULE MCTimeCorrections -------------------------
(***************************************************************************)
(* The instance of TimeCorrections: a worker and a manager, two pay        *)
(* periods of one instant each, two entries, one break and one request.    *)
(* Small leaves out only the states with both a break and two entries: the *)
(* breaks matter to the minutes of their own entry, the second entry to    *)
(* the rules between entries, and no rule of this module is about both.    *)
(***************************************************************************)
EXTENDS TimeCorrections, TLC

CONSTANTS w, m, e1, e2, c1, c2, r1

Symmetry == Permutations({e1, e2}) \cup Permutations({c1, c2})

Small == DOMAIN breaks = {} \/ Cardinality(DOMAIN entry) <= 1
=============================================================================
