----------------------------- MODULE MCRedLock ------------------------------
(***************************************************************************)
(* An instance of RedLock: one client calls Lock once, the other           *)
(* ContinueLock twice.                                                     *)
(***************************************************************************)
EXTENDS RedLock, TLC
CONSTANTS c1, c2

MCMaxCalls == (c1 :> 1) @@ (c2 :> 2)
=============================================================================
