---------------------------- MODULE MCChainRepl ----------------------------
(* Small instances of ChainRepl for TLC.                                   *)
EXTENDS ChainRepl, TLC

\* Clients are interchangeable: no definition tells one from another.
ClientSymmetry == Permutations(Clients)
=============================================================================
