---------------------------- MODULE MCApiProcess ----------------------------
(***************************************************************************)
(* Instances of ApiProcess with a pool of two connections (twenty by       *)
(* default in config/env.ts).  MCApiProcess.cfg has one request that needs *)
(* two connections and a batch that needs one, so that the pool can run    *)
(* dry but never lock up, one pass here and passes of another machine, and *)
(* two faults. The runs of one documented rule have what that rule needs.  *)
(***************************************************************************)
EXTENDS ApiProcess, TLC

CONSTANTS r1, r2, p1, c1, c2
=============================================================================
