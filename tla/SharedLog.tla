----------------------------- MODULE SharedLog -----------------------------
(***************************************************************************)
(* Eventual consistency through the shared log (Kafka): consistency_model  *)
(* eventual, in the two topologies that use it.                            *)
(*                                                                         *)
(* Topology ms: clients write at the master's proxy, which hands every set *)
(* to a Kafka producer before it sends it to its own datalet; the proxy of *)
(* each slave runs a thread (consume_kafka) that reads the log from its    *)
(* beginning and sends every entry to the slave's datalet.                 *)
(* Topology aa: every proxy takes writes, and every proxy also consumes    *)
(* the log, its own writes included.                                       *)
(*                                                                         *)
(* A proxy and its datalet are one node, and fail together: the datalet's  *)
(* table is in memory.  A proxy started again with the recovery option     *)
(* runs recover_kafka: it replays the log into its datalet until Kafka     *)
(* has nothing more to return, while it already serves clients.            *)
(*                                                                         *)
(* Every client waits for its answer, so that the queues of its connection *)
(* hold at most one request (ChainRepl models the queues and the events of *)
(* the same handlers): stage says where that request is.                   *)
(***************************************************************************)
EXTENDS Naturals, Sequences, Functions

CONSTANTS
  Nodes,     \* proxies, each with its datalet
  Topology,  \* "ms" or "aa"
  Master,    \* topology ms: the node of the master
  Model,     \* the consistency_model each node's configuration file gives
  Clients,   \* client connections
  Home,      \* the proxy each client is connected to
  Keys,
  Ops,       \* the commands clients use, a subset of {"set", "get", "del"}
  MaxOps,    \* bound: requests a client issues
  CanCrash,  \* nodes that may crash, once each
  NoVal      \* absence of a value

ASSUME LogAssumption ==
  /\ Topology \in {"ms", "aa"}
  /\ Master \in Nodes
  /\ Model \in [Nodes -> STRING]
  /\ \A p \in Nodes : (Topology = "aa" \/ p = Master) => Model[p] = "eventual"
  /\ Home \in [Clients -> Nodes]
  /\ Ops \subseteq {"set", "get", "del"}
  /\ MaxOps \in Nat
  /\ CanCrash \subseteq Nodes

Followers == IF Topology = "ms" THEN Nodes \ {Master} ELSE {}
Threads == Nodes \X {"consume", "recover"}

\* A request.  A set writes a value of its own, for which the request stands.
Requests == [cl : Clients, seq : 1..MaxOps, op : Ops, key : Keys]

VARIABLES
  up,      \* nodes that run
  crashed, \* nodes that have crashed once (bound)
  model,   \* consistency_model of each proxy, as its constructor left it
  store,   \* the table of each datalet
  issued,  \* requests each client issued
  stage,   \* where the last request of a client is
  outq,    \* the queue of the Kafka producer of a client's server link
  klog,    \* the log: partition 0 of the shard's topic
  at,      \* what each replaying thread is doing
  pos,     \* how many entries of the log it has consumed
  applied, \* history: sets each datalet has carried out
  acked    \* history: sets whose answer the client has read

vars == <<up, crashed, model, store, issued, stage, outq, klog, at, pos,
          applied, acked>>
clientVars == <<issued, stage, outq, acked>>
threadVars == <<at, pos>>
nodeVars == <<up, crashed, model>>

\* NetworkServer's constructor: a string it does not know assigns nothing.
ParsedAs(s) ==
  LET known == {"strong", "eventual", "without"}
  IN IF s \in known THEN {s} ELSE known

\* batch_loop starts consume_kafka in every proxy that does not own the writes.
\* ConsumesInAA is a seeded fault: the slaves' thread is forgotten.
ConsumesInAA(p, m) == m = "eventual" /\ Topology = "aa"
Consumes(p, m) == m = "eventual" /\ (Topology = "aa" \/ p # Master)
\* batch_loop starts recover_kafka in a proxy given the recovery option.
Recovers(p) == Topology = "aa" \/ p = Master

Empty == [k \in Keys |-> NoVal]

\* set_offset: a thread reads from the beginning of the log.  StoredOffset is
\* a seeded fault: it goes on where the thread before it stopped.
StoredOffset(q, t) == q[t]
StartOffset(q, t) == 0

Init ==
  /\ up = Nodes
  /\ crashed = {}
  /\ model \in [Nodes -> {"strong", "eventual", "without"}]
  /\ \A p \in Nodes : model[p] \in ParsedAs(Model[p])
  /\ store = [p \in Nodes |-> Empty]
  /\ issued = [c \in Clients |-> <<>>]
  /\ stage = [c \in Clients |-> "idle"]
  /\ outq = [c \in Clients |-> <<>>]
  /\ klog = <<>>
  /\ at = [t \in Threads |->
             IF t[2] = "consume" /\ Consumes(t[1], model[t[1]])
             THEN "start" ELSE "off"]
  /\ pos = [t \in Threads |-> 0]
  /\ applied = [p \in Nodes |-> {}]
  /\ acked = {}

-----------------------------------------------------------------------------
(* Clients and their path through the proxy of their node.                 *)

Last(c) == issued[c][Len(issued[c])]

\* A client sends a request; sets are sent to a proxy that takes writes.
Issue(c) ==
  /\ Home[c] \in up
  /\ stage[c] = "idle"
  /\ Len(issued[c]) < MaxOps
  /\ \E o \in Ops, k \in Keys :
       /\ o = "set" => Home[c] \notin Followers
       /\ issued' = [issued EXCEPT ![c] =
            Append(@, [cl |-> c, seq |-> Len(@) + 1, op |-> o, key |-> k])]
  /\ stage' = [stage EXCEPT ![c] = "arrived"]
  /\ UNCHANGED <<nodeVars, store, outq, klog, threadVars, applied, acked>>

\* req_recv hands a set to the producer of the server link, which only queues
\* it, and then queues the request for the datalet.  ProduceNothing is a seeded
\* fault.
ProduceNothing(c, r) == outq
Produce(c, r) ==
  IF r.op = "set" THEN [outq EXCEPT ![c] = Append(@, r)] ELSE outq

ReqRecv(c) ==
  /\ stage[c] = "arrived"
  /\ outq' = Produce(c, Last(c))
  /\ stage' = [stage EXCEPT ![c] = "queued"]
  /\ UNCHANGED <<nodeVars, store, issued, klog, threadVars, applied, acked>>

\* A handler that moves the request from one queue to the next.
Move(c, from, to) ==
  /\ stage[c] = from
  /\ stage' = [stage EXCEPT ![c] = to]
  /\ UNCHANGED <<nodeVars, store, issued, outq, klog, threadVars, applied, acked>>

ReqSend(c) == Move(c, "queued", "sent")
RspRecv(c) == Move(c, "answered", "reply")

\* The datalet of node p carries out request r.  Seeded faults: PerformKey
\* stores the key, PerformOnce does not overwrite.
PerformKey(p, r) ==
  IF r.op = "set"
  THEN /\ store' = [store EXCEPT ![p][r.key] = r.key]
       /\ applied' = [applied EXCEPT ![p] = @ \cup {r}]
  ELSE UNCHANGED <<store, applied>>
PerformOnce(p, r) ==
  IF r.op = "set" /\ store[p][r.key] = NoVal
  THEN /\ store' = [store EXCEPT ![p][r.key] = r]
       /\ applied' = [applied EXCEPT ![p] = @ \cup {r}]
  ELSE UNCHANGED <<store, applied>>
Perform(p, r) ==
  IF r.op = "set"
  THEN /\ store' = [store EXCEPT ![p][r.key] = r]
       /\ applied' = [applied EXCEPT ![p] = @ \cup {r}]
  ELSE UNCHANGED <<store, applied>>

HandleRequest(c) ==
  /\ stage[c] = "sent"
  /\ Perform(Home[c], Last(c))
  /\ stage' = [stage EXCEPT ![c] = "answered"]
  /\ UNCHANGED <<nodeVars, issued, outq, klog, threadVars, acked>>

\* The answer is written to the client, which reads it.
RspSend(c) ==
  /\ stage[c] = "reply"
  /\ stage' = [stage EXCEPT ![c] = "idle"]
  /\ acked' = IF Last(c).op = "set" THEN acked \cup {Last(c)} ELSE acked
  /\ UNCHANGED <<nodeVars, store, issued, outq, klog, threadVars, applied>>

-----------------------------------------------------------------------------
(* Kafka.                                                                  *)

\* A producer's queue reaches the log in its own order, some time later.
Deliver(c) ==
  /\ outq[c] # <<>>
  /\ klog' = Append(klog, Head(outq[c]))
  /\ outq' = [outq EXCEPT ![c] = Tail(@)]
  /\ UNCHANGED <<nodeVars, store, issued, stage, threadVars, applied, acked>>

-----------------------------------------------------------------------------
(* The threads that replay the log (consume_kafka, recover_kafka).         *)

\* The first consume of a thread; or its read event: the datalet's answer is
\* read and the next entry is consumed.  The entry is queued for the datalet.
Consume(t) ==
  /\ at[t] \in {"start", "answered"}
  /\ pos[t] < Len(klog)
  /\ pos' = [pos EXCEPT ![t] = @ + 1]
  /\ at' = [at EXCEPT ![t] = "queued"]
  /\ UNCHANGED <<nodeVars, store, clientVars, klog, applied>>

\* The same when Kafka returns no message: consume_kafka tries again, and
\* recover_kafka takes the log as replayed and ends.
ConsumeNothing(t) ==
  /\ at[t] \in {"start", "answered"}
  /\ t[2] = "recover"
  /\ pos[t] = Len(klog)
  /\ at' = [at EXCEPT ![t] = "off"]
  /\ UNCHANGED <<nodeVars, store, clientVars, klog, pos, applied>>

\* The write event of the thread's link.
ReplaySend(t) ==
  /\ at[t] = "queued"
  /\ at' = [at EXCEPT ![t] = "sent"]
  /\ UNCHANGED <<nodeVars, store, clientVars, klog, pos, applied>>

\* The datalet carries the entry out.
ReplayHandle(t) ==
  /\ at[t] = "sent"
  /\ Perform(t[1], klog[pos[t]])
  /\ at' = [at EXCEPT ![t] = "answered"]
  /\ UNCHANGED <<nodeVars, clientVars, klog, pos>>

-----------------------------------------------------------------------------
(* Crash and restart of a node.                                            *)

\* The requests of its clients and the producers' queues are lost with it.
Crash(p) ==
  /\ p \in up \cap CanCrash
  /\ p \notin crashed
  /\ up' = up \ {p}
  /\ crashed' = crashed \cup {p}
  /\ stage' = [c \in Clients |-> IF Home[c] = p THEN "idle" ELSE stage[c]]
  /\ outq' = [c \in Clients |-> IF Home[c] = p THEN <<>> ELSE outq[c]]
  /\ at' = [t \in Threads |-> IF t[1] = p THEN "off" ELSE at[t]]
  /\ UNCHANGED <<model, store, issued, klog, pos, applied, acked>>

\* A new proxy with the recovery option, and a new datalet.
Restart(p) ==
  /\ p \in Nodes \ up
  /\ up' = up \cup {p}
  /\ store' = [store EXCEPT ![p] = Empty]
  /\ applied' = [applied EXCEPT ![p] = {}]
  /\ pos' = [t \in Threads |-> IF t[1] = p THEN StartOffset(pos, t) ELSE pos[t]]
  /\ at' = [t \in Threads |->
              IF \/ t = <<p, "consume">> /\ Consumes(p, model[p])
                 \/ t = <<p, "recover">> /\ Recovers(p)
              THEN "start" ELSE at[t]]
  /\ UNCHANGED <<crashed, model, clientVars, klog>>

-----------------------------------------------------------------------------
Next ==
  \/ \E c \in Clients :
       \/ Issue(c) \/ ReqRecv(c) \/ ReqSend(c) \/ HandleRequest(c)
       \/ RspRecv(c) \/ RspSend(c) \/ Deliver(c)
  \/ \E t \in Threads :
       Consume(t) \/ ConsumeNothing(t) \/ ReplaySend(t) \/ ReplayHandle(t)
  \/ \E p \in Nodes : Crash(p) \/ Restart(p)

Spec == Init /\ [][Next]_vars

\* The event loops, the threads, the datalets and the broker keep running.  Of
\* the handlers of one client's request, and of one thread, one at a time is
\* enabled.  A node that has crashed need not be started again.
Advance(c) ==
  \/ ReqRecv(c) \/ ReqSend(c) \/ HandleRequest(c) \/ RspRecv(c) \/ RspSend(c)
Replay(t) == Consume(t) \/ ReplaySend(t) \/ ReplayHandle(t)
Fairness ==
  /\ \A c \in Clients : WF_vars(Advance(c)) /\ WF_vars(Deliver(c))
  /\ \A t \in Threads : WF_vars(Replay(t))
FairSpec == Spec /\ Fairness

-----------------------------------------------------------------------------
(* Properties.                                                             *)

Stages == {"idle", "arrived", "queued", "sent", "answered", "reply"}

\* Types of the state.
TypeOK ==
  /\ up \subseteq Nodes /\ crashed \subseteq Nodes
  /\ model \in [Nodes -> {"strong", "eventual", "without"}]
  /\ store \in [Nodes -> [Keys -> Requests \cup {NoVal}]]
  /\ issued \in [Clients -> Seq(Requests)]
  /\ stage \in [Clients -> Stages]
  /\ outq \in [Clients -> Seq(Requests)]
  /\ klog \in Seq(Requests)
  /\ at \in [Threads -> {"off", "start", "queued", "sent", "answered"}]
  /\ pos \in [Threads -> Nat]
  /\ applied \in [Nodes -> SUBSET Requests]
  /\ acked \in SUBSET Requests

\* How many entries the datalet of node p has been given by consume_kafka and
\* has carried out.
Replayed(p) ==
  LET t == <<p, "consume">>
  IN IF at[t] \in {"queued", "sent"} THEN pos[t] - 1 ELSE pos[t]

\* The last of the first n log entries that writes key k.
LastWrite(k, n) ==
  LET w == {i \in 1..n : klog[i].key = k}
  IN IF w = {} THEN NoVal ELSE klog[CHOOSE i \in w : \A j \in w : j <= i]

\* The table of a slave is at any moment the result of the first entries of
\* the log, each carried out once and in order: consume_kafka keeps one entry
\* in flight, and nothing else writes to a slave's datalet.
SlavesFollowLog ==
  \A p \in Followers \cap up, k \in Keys : store[p][k] = LastWrite(k, Replayed(p))

\* The slaves implement replication through a log: see ReplicatedLog.  A node
\* that is down counts as one with an empty table.
Replication == INSTANCE ReplicatedLog WITH
  Replicas <- Followers,
  Writes <- Requests,
  log <- klog,
  pos <- [p \in Followers |-> IF p \in up THEN Replayed(p) ELSE 0],
  table <- [p \in Followers |-> IF p \in up THEN store[p] ELSE Empty]

\* consume_kafka, Kafka and the slaves' datalets only ever append to the log,
\* carry out the next entry, or start again from nothing.
ImplementsReplicatedLog == Replication!Spec

\* Every set a client saw answered is carried out in the end by every datalet
\* that runs, one started again with an empty table included: the producer's
\* queue reaches the log, and every consumer reads the log from its beginning.
EveryAckReplicated == []<>(\A p \in up : acked \subseteq applied[p])

\* Nothing is on its way any more: all nodes run, no request is unanswered,
\* the log holds everything produced and has been replayed everywhere.
Quiescent ==
  /\ up = Nodes
  /\ \A c \in Clients : stage[c] = "idle" /\ outq[c] = <<>>
  /\ \A t \in Threads :
       \/ at[t] = "off"
       \/ t[2] = "consume" /\ at[t] \in {"start", "answered"} /\ pos[t] = Len(klog)

Agree(k) == \A p, q \in Nodes : store[p][k] = store[q][k]

\* Eventual consistency: when nothing is on its way the tables agree.
Converges == Quiescent => \A k \in Keys : Agree(k)

\* The tables agree on every key that only one client has written, whatever
\* the order in which the datalet got the client's own request and the log.
Writers(k) ==
  {c \in Clients : \E i \in DOMAIN issued[c] :
                     issued[c][i].op = "set" /\ issued[c][i].key = k}
SingleWriterConverges ==
  Quiescent => \A k \in Keys : (\A c, d \in Writers(k) : c = d) => Agree(k)

-----------------------------------------------------------------------------
(* What makes SlavesFollowLog inductive.                                   *)

\* Only sets are in the log and on their way to it.
LogOfSets ==
  /\ \A i \in DOMAIN klog : klog[i].op = "set"
  /\ \A c \in Clients : \A i \in DOMAIN outq[c] : outq[c][i].op = "set"

\* A request in flight is the last one issued, at a node that runs; the clients
\* of a slave only read.
ClientsOK ==
  \A c \in Clients :
    /\ stage[c] # "idle" => issued[c] # <<>> /\ Home[c] \in up
    /\ Home[c] \in Followers =>
         \A i \in DOMAIN issued[c] : issued[c][i].op # "set"

\* A thread is never ahead of the log, and has consumed the entry it has in
\* flight; no thread of a node that is down runs, and no recover_kafka of a
\* slave.
ThreadsOK ==
  \A t \in Threads :
    /\ pos[t] <= Len(klog)
    /\ at[t] \in {"queued", "sent"} => pos[t] # 0
    /\ t[1] \notin up => at[t] = "off"
    /\ t[2] = "recover" /\ t[1] \in Followers => at[t] = "off"

LogDiscipline == LogOfSets /\ ClientsOK /\ ThreadsOK
=============================================================================
