---------------------------- MODULE LockedWrites ----------------------------
(***************************************************************************)
(* Topology aa with strong consistency: every proxy takes requests, sends  *)
(* them to the datalet of its own node and, the ones it takes for writes,  *)
(* to the datalets of all other nodes as well.  A lock per key, kept in a  *)
(* redis server all proxies use (ConLock), is taken in req_recv and given  *)
(* back in rsp_recv, when the datalet of the proxy's own node has          *)
(* answered.                                                               *)
(*                                                                         *)
(* Each client connection has a server link of its own to the datalet of   *)
(* its node and slave links of its own to the others.  Every client waits  *)
(* for its answer, so that stage tells where its one request is; the slave *)
(* links can fall behind and are queues.                                   *)
(***************************************************************************)
EXTENDS Naturals, Sequences, Functions

CONSTANTS
  Nodes,     \* proxies, each with its datalet
  Clients,   \* client connections
  Home,      \* the proxy each client is connected to
  Keys,
  Ops,       \* the commands clients use, a subset of {"set", "get"}
  MaxOps,    \* bound: requests each client issues
  NoVal,     \* absence of a value
  Free       \* no lock

ASSUME LockAssumption ==
  /\ Home \in [Clients -> Nodes]
  /\ Ops \subseteq {"set", "get"}
  /\ MaxOps \in [Clients -> Nat]
  /\ Free \notin Clients

\* A set writes a value of its own, for which the request stands.
Requests == [cl : Clients, seq : Nat, op : Ops, key : Keys]
\* The slave links: one from each client connection to each other node.
Slaves == {s \in Clients \X Nodes : s[2] # Home[s[1]]}

VARIABLES
  store,   \* the table of each datalet
  lock,    \* redis: who set the lock on a key (redis only knows that it is set)
  fwd,     \* fwd_to_replicas of each server link
  issued,  \* requests each client issued
  stage,   \* where the last request of a client is
  imsg,    \* imsg_q of each slave link
  wire,    \* requests sent on each slave link and not carried out yet
  produced,\* requests handed to the Kafka producer
  applied, \* history: sets each datalet has carried out
  acked,   \* history: sets whose answer the client has read
  expired  \* history: keys whose lock has expired

vars == <<store, lock, fwd, issued, stage, imsg, wire, produced, applied, acked,
          expired>>

\* fwd_to_replicas of a new Link is not initialised.
Init ==
  /\ store = [n \in Nodes |-> [k \in Keys |-> NoVal]]
  /\ lock = [k \in Keys |-> Free]
  /\ fwd \in [Clients -> BOOLEAN]
  /\ issued = [c \in Clients |-> <<>>]
  /\ stage = [c \in Clients |-> "idle"]
  /\ imsg = [s \in Slaves |-> <<>>]
  /\ wire = [s \in Slaves |-> <<>>]
  /\ produced = {}
  /\ applied = [n \in Nodes |-> {}]
  /\ acked = {}
  /\ expired = {}

Last(c) == issued[c][Len(issued[c])]

-----------------------------------------------------------------------------
\* A client sends a request.
Issue(c) ==
  /\ stage[c] = "idle"
  /\ Len(issued[c]) < MaxOps[c]
  /\ \E o \in Ops, k \in Keys :
       issued' = [issued EXCEPT ![c] =
         Append(@, [cl |-> c, seq |-> Len(@) + 1, op |-> o, key |-> k])]
  /\ stage' = [stage EXCEPT ![c] = "arrived"]
  /\ UNCHANGED <<store, lock, fwd, imsg, wire, produced, applied, acked, expired>>

\* ConLock::lock sets the key if it is not set.  Seeded fault: it always
\* succeeds.
LockAlways(k) == TRUE
Lockable(k) == lock[k] = Free

\* The request is queued on every slave link of the client's connection.
\* Seeded fault: it is queued on none.
PropagateNowhere(c, r) == imsg
Propagate(c, r) == [s \in Slaves |-> IF s[1] = c THEN Append(imsg[s], r) ELSE imsg[s]]

\* req_recv hands a request to the Kafka producer before it tries the lock.
\* Seeded fault: it does not.
ProduceNothing(f, r) == produced
Produce(f, r) == IF f THEN produced \cup {r} ELSE produced

\* req_recv.  A set makes the server link's flag true, and nothing makes it
\* false again.  Without the flag the outcome of the lock is not looked at.
\* With it, and without the lock, the message, which is parsed to its end, goes
\* to the client's own queue: it is never written, and if the event for writing
\* is still set, rsp_send finds nothing to write and gives the link up.
ReqRecv(c) ==
  LET r == Last(c)
      f == fwd[c] \/ r.op = "set"
      got == Lockable(r.key)
  IN /\ stage[c] = "arrived"
     /\ produced' = Produce(f, r)
     /\ fwd' = [fwd EXCEPT ![c] = f]
     /\ lock' = IF got THEN [lock EXCEPT ![r.key] = c] ELSE lock
     /\ \/ /\ f /\ ~got
           /\ stage' = [stage EXCEPT ![c] = "dropped"]
           /\ UNCHANGED imsg
        \/ /\ ~f \/ got
           /\ stage' = [stage EXCEPT ![c] = "queued"]
           /\ imsg' = IF f THEN Propagate(c, r) ELSE imsg
     /\ UNCHANGED <<store, issued, wire, applied, acked, expired>>

\* req_send.
ReqSend(c) ==
  /\ stage[c] = "queued"
  /\ stage' = [stage EXCEPT ![c] = "sent"]
  /\ UNCHANGED <<store, lock, fwd, issued, imsg, wire, produced, applied, acked,
                 expired>>

\* The datalet of node n carries out request r.  Seeded fault: it stores the
\* key.
PerformKey(n, r) ==
  IF r.op = "set"
  THEN /\ store' = [store EXCEPT ![n][r.key] = r.key]
       /\ applied' = [applied EXCEPT ![n] = @ \cup {r}]
  ELSE UNCHANGED <<store, applied>>
Perform(n, r) ==
  IF r.op = "set"
  THEN /\ store' = [store EXCEPT ![n][r.key] = r]
       /\ applied' = [applied EXCEPT ![n] = @ \cup {r}]
  ELSE UNCHANGED <<store, applied>>

HandleRequest(c) ==
  /\ stage[c] = "sent"
  /\ Perform(Home[c], Last(c))
  /\ stage' = [stage EXCEPT ![c] = "answered"]
  /\ UNCHANGED <<lock, fwd, issued, imsg, wire, produced, acked, expired>>

\* ConLock::unlock deletes the key, whoever set it.  Seeded fault: the lock is
\* left to expire.
UnlockNothing(k) == lock
Unlock(k) == [lock EXCEPT ![k] = Free]

\* rsp_recv gives the lock back, had or not, and queues the answer.
RspRecv(c) ==
  /\ stage[c] = "answered"
  /\ lock' = Unlock(Last(c).key)
  /\ stage' = [stage EXCEPT ![c] = "reply"]
  /\ UNCHANGED <<store, fwd, issued, imsg, wire, produced, applied, acked,
                 expired>>

\* rsp_send; the client reads the answer.
RspSend(c) ==
  /\ stage[c] = "reply"
  /\ stage' = [stage EXCEPT ![c] = "idle"]
  /\ acked' = IF Last(c).op = "set" THEN acked \cup {Last(c)} ELSE acked
  /\ UNCHANGED <<store, lock, fwd, issued, imsg, wire, produced, applied,
                 expired>>

\* replica_req_send.
ReplicaReqSend(s) ==
  /\ imsg[s] # <<>>
  /\ wire' = [wire EXCEPT ![s] = Append(@, Head(imsg[s]))]
  /\ imsg' = [imsg EXCEPT ![s] = Tail(@)]
  /\ UNCHANGED <<store, lock, fwd, issued, stage, produced, applied, acked,
                 expired>>

\* The datalet at the other end carries the request out; replica_rsp_recv drops
\* its answer.
ReplicaHandle(s) ==
  /\ wire[s] # <<>>
  /\ Perform(s[2], Head(wire[s]))
  /\ wire' = [wire EXCEPT ![s] = Tail(@)]
  /\ UNCHANGED <<lock, fwd, issued, stage, imsg, produced, acked, expired>>

\* redis drops a lock 500 ms after it was set, given back or not.
Expire(k) ==
  /\ lock[k] # Free
  /\ lock' = [lock EXCEPT ![k] = Free]
  /\ expired' = expired \cup {k}
  /\ UNCHANGED <<store, fwd, issued, stage, imsg, wire, produced, applied, acked>>

-----------------------------------------------------------------------------
\* The handlers that move a client's request on: one at a time is enabled.
Advance(c) ==
  \/ ReqRecv(c) \/ ReqSend(c) \/ HandleRequest(c) \/ RspRecv(c) \/ RspSend(c)

Next ==
  \/ \E c \in Clients : Issue(c) \/ Advance(c)
  \/ \E s \in Slaves : ReplicaReqSend(s) \/ ReplicaHandle(s)
  \/ \E k \in Keys : Expire(k)

Spec == Init /\ [][Next]_vars

\* The event loops and the datalets keep running.
Fairness ==
  /\ \A c \in Clients : WF_vars(Advance(c))
  /\ \A s \in Slaves : WF_vars(ReplicaReqSend(s)) /\ WF_vars(ReplicaHandle(s))
FairSpec == Spec /\ Fairness

-----------------------------------------------------------------------------
(* Properties.                                                             *)

Stages == {"idle", "arrived", "queued", "sent", "answered", "reply", "dropped"}

\* Types of the state.
TypeOK ==
  /\ store \in [Nodes -> [Keys -> Requests \cup {NoVal}]]
  /\ lock \in [Keys -> Clients \cup {Free}]
  /\ fwd \in [Clients -> BOOLEAN]
  /\ issued \in [Clients -> Seq(Requests)]
  /\ stage \in [Clients -> Stages]
  /\ imsg \in [Slaves -> Seq(Requests)]
  /\ wire \in [Slaves -> Seq(Requests)]
  /\ produced \in SUBSET Requests
  /\ applied \in [Nodes -> SUBSET Requests]
  /\ acked \in SUBSET Requests
  /\ expired \in SUBSET Keys

\* Between req_recv and rsp_recv: the part of a request the lock protects.
Working(c) == stage[c] \in {"queued", "sent", "answered"}

\* Every request for k sent so far writes, and no lock on k has expired.
Protected(k) ==
  /\ k \notin expired
  /\ \A c \in Clients : \A i \in DOMAIN issued[c] :
       issued[c][i].key = k => issued[c][i].op = "set"

\* A request works under a lock of its own: from req_recv to rsp_recv nobody
\* else has taken the lock on its key, and nobody else has given it back.  This
\* is so for every key that is only written and whose lock never expired,
\* whatever happens to the other keys.
HoldsLock ==
  \A c \in Clients :
    Working(c) /\ Protected(Last(c).key) => lock[Last(c).key] = c

\* The lock keeps requests for one such key apart, whichever proxies they go
\* through.
OneAtATime ==
  \A c, d \in Clients :
    /\ Working(c) /\ Working(d) /\ Last(c).key = Last(d).key
    /\ Protected(Last(c).key)
    => c = d

\* The lock keeps requests for one key apart, reads included, unless it has
\* expired.
ReadsApart ==
  \A c, d \in Clients :
    /\ Working(c) /\ Working(d) /\ Last(c).key = Last(d).key
    /\ Last(c).key \notin expired
    => c = d

\* A request is dropped only when somebody else uses its key: rsp_recv gives a
\* client's own lock back before the client can send again.
DroppedOnlyContended ==
  \A c \in Clients : stage[c] = "dropped" =>
    \E d \in Clients \ {c} : \E i \in DOMAIN issued[d] : issued[d][i].key = Last(c).key

\* Whatever a datalet stores was handed to the Kafka producer before, so that
\* the log recover_kafka replays into a new datalet can rebuild it.
AppliedIsLogged == \A n \in Nodes : applied[n] \subseteq produced

\* Nothing is on its way any more.
Quiescent ==
  /\ \A c \in Clients : stage[c] \in {"idle", "dropped"}
  /\ \A s \in Slaves : imsg[s] = <<>> /\ wire[s] = <<>>

Agree(k) == \A n, m \in Nodes : store[n][k] = store[m][k]

\* Strong consistency, at least of what is left in the end: when nothing is on
\* its way the tables agree.
ReplicasAgree == Quiescent => \A k \in Keys : Agree(k)

\* The tables agree on every key that only one client has written: the slave
\* links keep the order of the client's sets, and a set whose lock is refused
\* reaches no datalet.
Writers(k) ==
  {c \in Clients : \E i \in DOMAIN issued[c] :
                     issued[c][i].op = "set" /\ issued[c][i].key = k}
SingleWriterAgreement ==
  Quiescent => \A k \in Keys : (\A c, d \in Writers(k) : c = d) => Agree(k)

\* Every set a client saw answered is carried out by every datalet in the end:
\* the slave links are served, whatever happened to the lock.
EveryAckReplicated == []<>(\A n \in Nodes : acked \subseteq applied[n])
=============================================================================
