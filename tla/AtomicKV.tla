----------------------------- MODULE AtomicKV -----------------------------
(***************************************************************************)
(* What a strongly consistent key-value service promises its clients: a    *)
(* request takes effect on one map, in one step, at some moment between    *)
(* the moment the client issues it and the moment the client reads the     *)
(* answer, and the answer is the one computed in that step.                *)
(*                                                                         *)
(* A client has at most one request outstanding, as the client library     *)
(* (apps/clibs/libckv/ConnectionPool.cpp, waitPoll) has per connection.    *)
(***************************************************************************)
EXTENDS Naturals, Sequences

CONSTANTS
  Clients,   \* client connections
  Keys,      \* keys of the store
  Requests,  \* records with at least the fields op and key
  NoVal,     \* the answer for a key that is absent, and for a set or a del
  ValueOf(_) \* the value a set request carries

VARIABLES
  kv,      \* the map: Keys -> values
  call,    \* the requests each client issued, in order
  ret,     \* the answers computed for them, in order
  answers  \* the answers each client has read, in order

vars == <<kv, call, ret, answers>>

Init ==
  /\ kv = [k \in Keys |-> NoVal]
  /\ call = [c \in Clients |-> <<>>]
  /\ ret = [c \in Clients |-> <<>>]
  /\ answers = [c \in Clients |-> <<>>]

\* The answer to r when the map is m, and the map after r.  A del is answered
\* and changes nothing: every datalet of the repository replies to it without
\* touching its table.
Answer(r, m) == [req |-> r, val |-> IF r.op = "get" THEN m[r.key] ELSE NoVal]
Effect(r, m) == IF r.op = "set" THEN [m EXCEPT ![r.key] = ValueOf(r)] ELSE m

Invoke(c) ==
  /\ Len(call[c]) = Len(answers[c])
  /\ \E r \in Requests : call' = [call EXCEPT ![c] = Append(@, r)]
  /\ UNCHANGED <<kv, ret, answers>>

Execute(c) ==
  /\ Len(ret[c]) < Len(call[c])
  /\ LET r == call[c][Len(ret[c]) + 1]
     IN /\ kv' = Effect(r, kv)
        /\ ret' = [ret EXCEPT ![c] = Append(@, Answer(r, kv))]
  /\ UNCHANGED <<call, answers>>

Return(c) ==
  /\ Len(answers[c]) < Len(ret[c])
  /\ answers' = [answers EXCEPT ![c] = Append(@, ret[c][Len(@) + 1])]
  /\ UNCHANGED <<kv, call, ret>>

Next == \E c \in Clients : Invoke(c) \/ Execute(c) \/ Return(c)

Spec == Init /\ [][Next]_vars
=============================================================================
