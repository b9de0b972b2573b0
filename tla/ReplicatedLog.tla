--------------------------- MODULE ReplicatedLog ---------------------------
(***************************************************************************)
(* What replication through a shared log promises: writes are appended to  *)
(* one log, and the table of every replica is the replay of a prefix of    *)
(* that log, one write at a time and in log order.  A replica that starts  *)
(* again starts from the empty table.                                      *)
(***************************************************************************)
EXTENDS Naturals, Sequences

CONSTANTS
  Replicas,
  Keys,
  Writes,  \* records with a field key; a write is its own value
  NoVal

VARIABLES
  log,   \* the writes, in order
  pos,   \* how many of them each replica has applied
  table  \* the table of each replica

vars == <<log, pos, table>>

Empty == [k \in Keys |-> NoVal]

Init ==
  /\ log = <<>>
  /\ pos = [r \in Replicas |-> 0]
  /\ table = [r \in Replicas |-> Empty]

AppendWrite ==
  /\ \E w \in Writes : log' = Append(log, w)
  /\ UNCHANGED <<pos, table>>

ApplyNext(r) ==
  /\ pos[r] < Len(log)
  /\ pos' = [pos EXCEPT ![r] = @ + 1]
  /\ LET w == log[pos[r] + 1]
     IN table' = [table EXCEPT ![r] = [@ EXCEPT ![w.key] = w]]
  /\ UNCHANGED log

StartAgain(r) ==
  /\ pos' = [pos EXCEPT ![r] = 0]
  /\ table' = [table EXCEPT ![r] = Empty]
  /\ UNCHANGED log

Next == AppendWrite \/ \E r \in Replicas : ApplyNext(r) \/ StartAgain(r)

Spec == Init /\ [][Next]_vars
=============================================================================
