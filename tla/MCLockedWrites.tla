--------------------------- MODULE MCLockedWrites ---------------------------
(* Instances of LockedWrites for TLC.                                      *)
EXTENDS LockedWrites

CONSTANTS n1, n2, c1, c2

\* The first client at the first node, all others at the second.
Spread == [c \in Clients |-> IF c = c1 THEN n1 ELSE n2]

\* The first client sends two requests, all others one.
Quota == [c \in Clients |-> IF c = c1 THEN 2 ELSE 1]
=============================================================================
