--------------------------- MODULE MCTimeTracking ---------------------------
(***************************************************************************)
(* The instance of TimeTracking: two workers, who may both be on the clock *)
(* at once, two entries and one break between them, and three client ids,  *)
(* enough for a worker to punch in and out around a break and for any      *)
(* request to be replayed.  Clients send the instants 0 and 2, with a fast *)
(* clock also while the latter lies ahead; the cap of two minutes makes an *)
(* entry opened at either stale by the last instant, 4, and the sweep      *)
(* takes one row at a time.  A liveness property is checked, so there is   *)
(* no symmetry set.                                                        *)
(***************************************************************************)
EXTENDS TimeTracking, TLC

CONSTANTS u1, u2, e1, e2, c1, c2, c3
=============================================================================
