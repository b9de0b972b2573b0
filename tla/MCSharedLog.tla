---------------------------- MODULE MCSharedLog ----------------------------
(* Instances of SharedLog for TLC.                                         *)
EXTENDS SharedLog, TLC

CONSTANTS n1, n2, c1, c2

\* Every node is configured as the documentation means it.
AllEventual == [p \in Nodes |-> "eventual"]
\* The slave's file as the documentation prints it.
SlaveAsPrinted == [p \in Nodes |-> IF p = n1 THEN "eventual" ELSE "evenual"]

\* All clients at the first node; or one at each of the two nodes.
AtFirst == [c \in Clients |-> n1]
Spread == [c \in Clients |-> IF c = c1 THEN n1 ELSE n2]
=============================================================================
