------------------------------ MODULE MCZkLock ------------------------------
(***************************************************************************)
(* The instance of ZkLock for TLC: a proxy that serves two sets, and two   *)
(* processes that take the lock as Lock and Unlock intend.                 *)
(***************************************************************************)
EXTENDS ZkLock

CONSTANTS p1, p2, p3

MCUses == [p \in Procs |-> CASE p = p1 -> {"set"} [] p = p2 -> {"w"} [] OTHER -> {"r", "w"}]
Quota == [p \in Procs |-> IF p = p3 THEN 1 ELSE 2]
=============================================================================
