---------------------------- MODULE MCLeaderLease ----------------------------
(***************************************************************************)
(* LeaderLease for TLC.  Two replicas; loop names say what they are: the   *)
(* scheduling tick (t) of both, a second checked loop (s, the stale sweep) *)
(* and a flag loop (h, the handoff tick) of the first.                     *)
(***************************************************************************)
EXTENDS LeaderLease

CONSTANTS r1, r2, t1, s1, h1, t2

HomeOf == [l \in Loops |-> IF l = t2 THEN r2 ELSE r1]
=============================================================================
