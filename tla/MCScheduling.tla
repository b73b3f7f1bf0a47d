---------------------------- MODULE MCScheduling ----------------------------
(***************************************************************************)
(* Instances of Scheduling: days of four units, a day and a night shift,   *)
(* today, which lies in the notice window, and tomorrow, which does not.   *)
(***************************************************************************)
EXTENDS Scheduling, TLC

CONSTANTS s1, s2, u1, u2, u3, x1, x2

Slots == {<<0, 2>>, <<3, 1>>}

\* A behaviour with a trade is followed as long as it has used one row of
\* shifts, one with a request for time off until a row is deleted.
Small == /\ DOMAIN trades # {} => Cardinality(DOMAIN shifts \cup (gone \cap ShiftId)) <= 1
         /\ DOMAIN leaves # {} => gone = {}

Symmetry == Permutations({s1, s2}) \cup Permutations({u1, u2, u3})
            \cup Permutations({x1, x2})
=============================================================================
