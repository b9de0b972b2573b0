----------------------------- MODULE ChainRepl -----------------------------
(***************************************************************************)
(* The proxy (conproxy) of a master-slave shard with strong consistency    *)
(* and chain replication: topology ms, consistency_model strong,           *)
(* consistency_technique cr.  One event-loop thread runs one handler at a  *)
(* time, so a handler is one action; its clients, the datalets and the     *)
(* network run between any two handlers.                                   *)
(*                                                                         *)
(* For every client connection the proxy opens one connection of its own   *)
(* to the master datalet and to each slave datalet; such a pair            *)
(* <<client, node>> is a link.  Node 0 is the master, node n > 0 is the    *)
(* slave whose slave_number is n-1, and node Replicas is the tail.         *)
(*                                                                         *)
(* A set travels master, slave 0, slave 1, ..., tail: the proxy sends it   *)
(* to the next node when the previous one has answered, and the tail's     *)
(* answer is the one the client gets.  A get (and a del) goes to the tail. *)
(***************************************************************************)
EXTENDS Naturals, Sequences, Functions

CONSTANTS
  Clients,   \* client connections
  Keys,      \* keys
  Ops,       \* the commands clients use, a subset of {"set", "get", "del"}
  Replicas,  \* number of replicas excluding the master (num_replicas)
  MaxOps,    \* bound: requests a client connection carries
  Window,    \* requests a client leaves unanswered before it waits
  CanFail,   \* nodes whose datalet may stop
  CanClose,  \* clients that may close their connection
  NoVal      \* absence of a value

ASSUME ConstantsAssumption ==
  /\ Ops \subseteq {"set", "get", "del"}
  /\ Replicas \in Nat \ {0}
  /\ MaxOps \in Nat
  /\ Window \in Nat \ {0}
  /\ CanFail \subseteq 0..Replicas
  /\ CanClose \subseteq Clients

Nodes == 0..Replicas
Slaves == 1..Replicas
Links == Clients \X Nodes

\* A request: owner connection, position on that connection, command and key.
\* A set writes a value of its own, so that it can be told from every other.
Requests == [cl : Clients, seq : 1..MaxOps, op : Ops, key : Keys]
ValueOf(r) == <<r.cl, r.seq>>
Values == (Clients \X (1..MaxOps)) \cup {NoVal}
\* An answer of a datalet.  Field req is not on the wire: it says which
\* request the datalet was answering.
Responses == [req : Requests, val : Values]

VARIABLES
  proxy,    \* "up", or "exited" after exit(EXIT_FAILURE)
  conn,     \* state of each client connection: "new", "open" or "closed"
  toProxy,  \* bytes from a client to the proxy, as a sequence of requests
  cev,      \* events the proxy registered for a client connection
  cerr,     \* Link::error of the client link
  cimsg,    \* imsg_q of the client link: buffers of responses to write
  toClient, \* bytes from the proxy to a client
  fwd,      \* fwd_to_replicas of the client's master link
  tail,     \* Link::tail of a link; "unset" until assigned, and reads as either
  imsg,     \* imsg_q of a link: requests to send to its datalet
  omsg,     \* omsg_q of a link: requests sent and not yet answered
  ev,       \* events registered for a link
  err,      \* Link::error of a link
  toDl,     \* bytes from the proxy to a datalet on a link
  fromDl,   \* bytes from a datalet to the proxy on a link
  down,     \* nodes whose datalet has stopped
  store,    \* the table of each datalet
  klog,     \* requests handed to the Kafka producer, in order
  issued,   \* history: requests each client sent
  answers,  \* history: responses each client read
  applied,  \* history: values each datalet has stored
  lin       \* history: responses computed by the tail, per client

proxyVars == <<proxy, cev, cerr, cimsg, fwd, tail, imsg, omsg, ev, err, klog>>
clientVars == <<conn, issued, answers>>
netVars == <<toProxy, toClient, toDl, fromDl>>
dlVars == <<down, store, applied, lin>>
vars == <<proxyVars, clientVars, netVars, dlVars>>

Init ==
  /\ proxy = "up"
  /\ conn = [c \in Clients |-> "new"]
  /\ toProxy = [c \in Clients |-> <<>>]
  /\ cev = [c \in Clients |-> {}]
  /\ cerr = [c \in Clients |-> FALSE]
  /\ cimsg = [c \in Clients |-> <<>>]
  /\ toClient = [c \in Clients |-> <<>>]
  /\ fwd = [c \in Clients |-> FALSE]
  /\ tail = [l \in Links |-> "unset"]
  /\ imsg = [l \in Links |-> <<>>]
  /\ omsg = [l \in Links |-> <<>>]
  /\ ev = [l \in Links |-> {}]
  /\ err = [l \in Links |-> FALSE]
  /\ toDl = [l \in Links |-> <<>>]
  /\ fromDl = [l \in Links |-> <<>>]
  /\ down = {}
  /\ store = [n \in Nodes |-> [k \in Keys |-> NoVal]]
  /\ klog = <<>>
  /\ issued = [c \in Clients |-> <<>>]
  /\ answers = [c \in Clients |-> <<>>]
  /\ applied = [n \in Nodes |-> {}]
  /\ lin = [c \in Clients |-> <<>>]

-----------------------------------------------------------------------------
(* Clients (outside the proxy).                                            *)

\* The client sends one more request, unless Window are already unanswered.
Issue(c) ==
  /\ conn[c] = "open"
  /\ Len(issued[c]) < MaxOps
  /\ Len(issued[c]) < Len(answers[c]) + Window
  /\ \E o \in Ops, k \in Keys :
       LET r == [cl |-> c, seq |-> Len(issued[c]) + 1, op |-> o, key |-> k]
       IN /\ issued' = [issued EXCEPT ![c] = Append(@, r)]
          /\ toProxy' = [toProxy EXCEPT ![c] = Append(@, r)]
  /\ UNCHANGED <<proxyVars, conn, answers, toClient, toDl, fromDl, dlVars>>

ClientRead(c) ==
  /\ conn[c] = "open"
  /\ toClient[c] # <<>>
  /\ answers' = [answers EXCEPT ![c] = Append(@, Head(toClient[c]))]
  /\ toClient' = [toClient EXCEPT ![c] = Tail(@)]
  /\ UNCHANGED <<proxyVars, conn, issued, toProxy, toDl, fromDl, dlVars>>

\* The client gives up (poll timeout) and closes its socket.
ClientClose(c) ==
  /\ c \in CanClose
  /\ conn[c] = "open"
  /\ conn' = [conn EXCEPT ![c] = "closed"]
  /\ UNCHANGED <<proxyVars, issued, answers, netVars, dlVars>>

-----------------------------------------------------------------------------
(* Datalets (apps/iHT/conkv.cpp).                                          *)

\* compose_reply: a get returns the stored value; set and del a bare status.
\* Seeded fault: the key comes back.
EchoKey(n, r) == [req |-> r, val |-> r.key]
Answer(n, r) ==
  [req |-> r, val |-> IF r.op = "get" THEN store[n][r.key] ELSE NoVal]

\* process + handle_request: one request of the link is read, applied to the
\* table and answered.  A del is answered and changes nothing.
HandleRequest(c, n) ==
  /\ n \notin down
  /\ toDl[<<c, n>>] # <<>>
  /\ LET r == Head(toDl[<<c, n>>])
         a == Answer(n, r)
     IN /\ IF r.op = "set"
           THEN /\ store' = [store EXCEPT ![n][r.key] = ValueOf(r)]
                /\ applied' = [applied EXCEPT ![n] = @ \cup {ValueOf(r)}]
           ELSE UNCHANGED <<store, applied>>
        /\ toDl' = [toDl EXCEPT ![<<c, n>>] = Tail(@)]
        /\ fromDl' = [fromDl EXCEPT ![<<c, n>>] = Append(@, a)]
        /\ lin' = IF n = Replicas
                  THEN [lin EXCEPT ![c] = Append(@, a)] ELSE lin
  /\ UNCHANGED <<proxyVars, clientVars, toProxy, toClient, down>>

\* The datalet process stops; its connections are reset.
DataletStop(n) ==
  /\ n \in CanFail \ down
  /\ down' = down \cup {n}
  /\ UNCHANGED <<proxyVars, clientVars, netVars, store, applied, lin>>

-----------------------------------------------------------------------------
(* The event loop and its handlers (net.cpp, msg.cpp).                     *)

\* batch_loop, listening socket: establish_server_conn_each connects to every
\* datalet and exits the process if one refuses; then the client is accepted
\* and its read event registered.
Accept(c) ==
  /\ proxy = "up"
  /\ conn[c] = "new"
  /\ IF down = {}
     THEN /\ conn' = [conn EXCEPT ![c] = "open"]
          /\ cev' = [cev EXCEPT ![c] = {"in"}]
          /\ UNCHANGED proxy
     ELSE /\ proxy' = "exited"
          /\ UNCHANGED <<conn, cev>>
  /\ UNCHANGED <<cerr, cimsg, fwd, tail, imsg, omsg, ev, err, klog>>
  /\ UNCHANGED <<issued, answers, netVars, dlVars>>

\* get_mapped_server_conn: only a set is forwarded along the chain.  Seeded
\* fault: nothing is.
ForwardsNothing(r) == FALSE
Forwards(r) == r.op = "set"

\* get_mapped_server_conn: the node a request is first sent to.  Seeded faults:
\* everything starts at the tail, or at the master.
TargetTail(r) == Replicas
TargetMaster(r) == 0
Target(r) == IF Forwards(r) THEN 0 ELSE Replicas

\* replica_rsp_recv: slave_number < replicas - 1 fails at the last slave only.
\* Seeded fault: off by one.
AtTailTooEarly(n) == n >= Replicas - 1
AtTail(n) == n = Replicas

\* req_recv hands a request that is forwarded to the Kafka producer.  Seeded
\* fault: it does not.
ProduceNothing(r) == klog
Produce(r) == IF Forwards(r) THEN Append(klog, r) ELSE klog

\* push_back on a link's imsg_q; the write event is registered when the queue
\* was empty.  Seeded fault: it is not registered.
ForwardWithoutEvent(l, r) ==
  /\ imsg' = [imsg EXCEPT ![l] = Append(@, r)]
  /\ UNCHANGED ev
Forward(l, r) ==
  /\ imsg' = [imsg EXCEPT ![l] = Append(@, r)]
  /\ ev' = [ev EXCEPT ![l] = IF imsg[l] = <<>> THEN @ \cup {"out"} ELSE @]

\* The same on the client link, with the buffer m of responses, and the same
\* seeded fault.
ReplyWithoutEvent(c, m) ==
  /\ cimsg' = [cimsg EXCEPT ![c] = Append(@, m)]
  /\ UNCHANGED cev
Reply(c, m) ==
  /\ cimsg' = [cimsg EXCEPT ![c] = Append(@, m)]
  /\ cev' = [cev EXCEPT ![c] = IF cimsg[c] = <<>> THEN @ \cup {"out"} ELSE @]

\* req_recv with get_mapped_server_conn.  A read returns any number of
\* requests and the handler loops over them; a loop over several is the same
\* as reading them one by one with no other handler in between.
ReqRecv(c) ==
  /\ proxy = "up"
  /\ "in" \in cev[c] /\ ~cerr[c]
  /\ toProxy[c] # <<>>
  /\ LET r == Head(toProxy[c])
     IN /\ fwd' = [fwd EXCEPT ![c] = Forwards(r)]
        /\ tail' = IF Forwards(r) THEN tail
                   ELSE [tail EXCEPT ![<<c, Replicas>>] = "true"]
        /\ klog' = Produce(r)
        /\ Forward(<<c, Target(r)>>, r)
  /\ toProxy' = [toProxy EXCEPT ![c] = Tail(@)]
  /\ UNCHANGED <<proxy, cev, cerr, cimsg, omsg, err>>
  /\ UNCHANGED <<clientVars, toClient, toDl, fromDl, dlVars>>

\* req_recv when msg_read meets the end of the stream: whatever was read with
\* it is dropped, the descriptor leaves the event set, and recv() resets the
\* error mark of the link.
ReqRecvEof(c) ==
  /\ proxy = "up"
  /\ "in" \in cev[c] /\ ~cerr[c]
  /\ conn[c] = "closed"
  /\ toProxy' = [toProxy EXCEPT ![c] = <<>>]
  /\ cev' = [cev EXCEPT ![c] = {}]
  /\ UNCHANGED <<proxy, cerr, cimsg, fwd, tail, imsg, omsg, ev, err, klog>>
  /\ UNCHANGED <<clientVars, toClient, toDl, fromDl, dlVars>>

\* The common body of req_send and replica_req_send on link l = <<c, n>>:
\* nothing queued, so the write event is cleared; or the head is written and
\* moves to omsg_q; or the write fails and the request is lost.
SendHead(l) ==
  /\ proxy = "up"
  /\ "out" \in ev[l] /\ ~err[l]
  /\ \/ /\ imsg[l] = <<>>
        /\ ev' = [ev EXCEPT ![l] = @ \ {"out"}]
        /\ UNCHANGED <<imsg, omsg, toDl, err>>
     \/ /\ imsg[l] # <<>>
        /\ imsg' = [imsg EXCEPT ![l] = Tail(@)]
        /\ omsg' = [omsg EXCEPT ![l] = Append(@, Head(imsg[l]))]
        /\ toDl' = [toDl EXCEPT ![l] = Append(@, Head(imsg[l]))]
        /\ ev' = [ev EXCEPT ![l] = @ \cup {"in"}]
        /\ UNCHANGED err
     \/ /\ imsg[l] # <<>>
        /\ l[2] \in down
        /\ imsg' = [imsg EXCEPT ![l] = Tail(@)]
        /\ err' = [err EXCEPT ![l] = TRUE]
        /\ ev' = [ev EXCEPT ![l] = {}]
        /\ UNCHANGED <<omsg, toDl>>
  /\ UNCHANGED <<proxy, cev, cerr, cimsg, fwd, tail, klog>>
  /\ UNCHANGED <<clientVars, toProxy, toClient, fromDl, dlVars>>

ReqSend(c) == SendHead(<<c, 0>>)
ReplicaReqSend(c, n) == SendHead(<<c, n>>)

\* msg_read on link l returns the first k responses as one buffer, and the
\* handler takes one request off omsg_q for it.
ReadBuffer(l, k) ==
  /\ proxy = "up"
  /\ "in" \in ev[l] /\ ~err[l]
  /\ fromDl[l] # <<>>
  /\ omsg[l] # <<>>
  /\ fromDl' = [fromDl EXCEPT ![l] = SubSeq(@, k + 1, Len(@))]
  /\ omsg' = [omsg EXCEPT ![l] = Tail(@)]

\* rsp_recv, master link: a set goes on to slave 0, anything else is answered.
RspRecv(c) ==
  LET l == <<c, 0>> IN
  /\ \E k \in 1..Len(fromDl[l]) :
       /\ ReadBuffer(l, k)
       /\ IF fwd[c]
          THEN Forward(<<c, 1>>, Head(omsg[l])) /\ UNCHANGED <<cimsg, cev>>
          ELSE Reply(c, SubSeq(fromDl[l], 1, k)) /\ UNCHANGED <<imsg, ev>>
  /\ UNCHANGED <<proxy, cerr, fwd, tail, err, klog>>
  /\ UNCHANGED <<clientVars, toProxy, toClient, toDl, dlVars>>

\* replica_rsp_recv: while the master link's fwd_to_replicas is set the chain
\* goes on, and the tail's response is the answer; otherwise a link marked
\* tail answers a get, and any other response is dropped.
ReplicaRspRecv(c, n) ==
  LET l == <<c, n>> IN
  /\ \E k \in 1..Len(fromDl[l]) :
       /\ ReadBuffer(l, k)
       /\ \/ /\ fwd[c] /\ ~AtTail(n)
             /\ Forward(<<c, n + 1>>, Head(omsg[l]))
             /\ UNCHANGED <<cimsg, cev, tail>>
          \/ /\ fwd[c] /\ AtTail(n)
             /\ Reply(c, SubSeq(fromDl[l], 1, k))
             /\ UNCHANGED <<imsg, ev, tail>>
          \/ /\ ~fwd[c] /\ tail[l] # "false"
             /\ Reply(c, SubSeq(fromDl[l], 1, k))
             /\ tail' = [tail EXCEPT ![l] = "false"]
             /\ UNCHANGED <<imsg, ev>>
          \/ /\ ~fwd[c] /\ tail[l] # "true"
             /\ tail' = [tail EXCEPT ![l] = "false"]
             /\ UNCHANGED <<imsg, ev, cimsg, cev>>
  /\ UNCHANGED <<proxy, cerr, fwd, err, klog>>
  /\ UNCHANGED <<clientVars, toProxy, toClient, toDl, dlVars>>

\* rsp_recv and replica_rsp_recv when msg_read returns NULL: the link is marked
\* and leaves the event set; responses read with the end of stream are dropped.
RspRecvFail(c, n) ==
  LET l == <<c, n>> IN
  /\ proxy = "up"
  /\ "in" \in ev[l] /\ ~err[l]
  /\ n \in down
  /\ err' = [err EXCEPT ![l] = TRUE]
  /\ ev' = [ev EXCEPT ![l] = {}]
  /\ fromDl' = [fromDl EXCEPT ![l] = <<>>]
  /\ UNCHANGED <<proxy, cev, cerr, cimsg, fwd, tail, imsg, omsg, klog>>
  /\ UNCHANGED <<clientVars, toProxy, toClient, toDl, dlVars>>

\* rsp_send: clear the write event, write the head, or fail on a closed peer.
RspSend(c) ==
  /\ proxy = "up"
  /\ "out" \in cev[c] /\ ~cerr[c]
  /\ \/ /\ cimsg[c] = <<>>
        /\ cev' = [cev EXCEPT ![c] = @ \ {"out"}]
        /\ UNCHANGED <<cimsg, toClient, cerr>>
     \/ /\ cimsg[c] # <<>>
        /\ cimsg' = [cimsg EXCEPT ![c] = Tail(@)]
        /\ toClient' = [toClient EXCEPT ![c] = @ \o Head(cimsg[c])]
        /\ UNCHANGED <<cev, cerr>>
     \/ /\ cimsg[c] # <<>>
        /\ conn[c] = "closed"
        /\ cimsg' = [cimsg EXCEPT ![c] = Tail(@)]
        /\ cerr' = [cerr EXCEPT ![c] = TRUE]
        /\ cev' = [cev EXCEPT ![c] = {}]
        /\ UNCHANGED toClient
  /\ UNCHANGED <<proxy, fwd, tail, imsg, omsg, ev, err, klog>>
  /\ UNCHANGED <<clientVars, toProxy, toDl, fromDl, dlVars>>

-----------------------------------------------------------------------------
Handlers(c) ==
  \/ ReqRecv(c) \/ ReqRecvEof(c) \/ ReqSend(c) \/ RspRecv(c) \/ RspSend(c)
  \/ \E n \in Slaves : ReplicaReqSend(c, n) \/ ReplicaRspRecv(c, n)
  \/ \E n \in Nodes : RspRecvFail(c, n)

Next ==
  \/ \E c \in Clients : Accept(c) \/ Handlers(c)
  \/ \E c \in Clients : Issue(c) \/ ClientRead(c) \/ ClientClose(c)
  \/ \E c \in Clients, n \in Nodes : HandleRequest(c, n)
  \/ \E n \in CanFail : DataletStop(n)

Spec == Init /\ [][Next]_vars

\* epoll is level triggered and the loop serves every ready descriptor, so a
\* handler that stays ready runs; datalets and the network keep going; a client
\* reads what has arrived, but need not send.
Fairness ==
  /\ \A c \in Clients :
       /\ WF_vars(Accept(c)) /\ WF_vars(ReqRecv(c)) /\ WF_vars(ReqSend(c))
       /\ WF_vars(RspRecv(c)) /\ WF_vars(RspSend(c)) /\ WF_vars(ClientRead(c))
  /\ \A c \in Clients, n \in Slaves :
       WF_vars(ReplicaReqSend(c, n)) /\ WF_vars(ReplicaRspRecv(c, n))
  /\ \A c \in Clients, n \in Nodes : WF_vars(HandleRequest(c, n))

FairSpec == Spec /\ Fairness

-----------------------------------------------------------------------------
(* Properties.                                                             *)

\* Type invariant of the proxy, the wires and the datalets.
TypeOK ==
  /\ proxy \in {"up", "exited"}
  /\ conn \in [Clients -> {"new", "open", "closed"}]
  /\ toProxy \in [Clients -> Seq(Requests)]
  /\ cev \in [Clients -> SUBSET {"in", "out"}]
  /\ cerr \in [Clients -> BOOLEAN]
  /\ cimsg \in [Clients -> Seq(Seq(Responses))]
  /\ toClient \in [Clients -> Seq(Responses)]
  /\ fwd \in [Clients -> BOOLEAN]
  /\ tail \in [Links -> {"unset", "true", "false"}]
  /\ imsg \in [Links -> Seq(Requests)]
  /\ omsg \in [Links -> Seq(Requests)]
  /\ ev \in [Links -> SUBSET {"in", "out"}]
  /\ err \in [Links -> BOOLEAN]
  /\ toDl \in [Links -> Seq(Requests)]
  /\ fromDl \in [Links -> Seq(Responses)]
  /\ down \in SUBSET Nodes
  /\ store \in [Nodes -> [Keys -> Values]]
  /\ klog \in Seq(Requests)
  /\ issued \in [Clients -> Seq(Requests)]
  /\ answers \in [Clients -> Seq(Responses)]
  /\ applied \in [Nodes -> SUBSET Values]
  /\ lin \in [Clients -> Seq(Responses)]

\* Responses the proxy has queued for, sent to, or delivered to client c.
Acked(c) ==
  (UNION {Range(cimsg[c][i]) : i \in DOMAIN cimsg[c]})
    \cup Range(toClient[c]) \cup Range(answers[c])

\* A set is acknowledged (rsp_recv, replica_rsp_recv queue the answer) only
\* after the master and every slave have stored it, whatever datalets stop and
\* whatever other clients do.
AckedEverywhere ==
  \A c \in Clients : \A a \in Acked(c) :
    a.req.op = "set" => \A n \in Nodes : ValueOf(a.req) \in applied[n]

\* The chain is walked in order: what a slave has stored, every node before it
\* has stored (rsp_recv and replica_rsp_recv forward only after an answer).
ChainOrder ==
  \A n \in Slaves : applied[n] \subseteq applied[n - 1]

\* No lost wakeup: a link with something queued, to a peer that is still
\* there, has its write event registered.  push_back registers it only when the
\* queue was empty, and the send handlers clear it only when they find the
\* queue empty.
NoLostWakeup ==
  /\ \A l \in Links : imsg[l] # <<>> /\ ~err[l] => "out" \in ev[l]
  /\ \A c \in Clients :
       cimsg[c] # <<>> /\ conn[c] = "open" => "out" \in cev[c]

\* The CHECKs of the response handlers never abort the proxy: a response finds
\* the request it answers in omsg_q, and what a slave before the tail hands on
\* is a message marked fwd_to_replicas.
ChecksHold ==
  \A c \in Clients, n \in Nodes :
    /\ fromDl[<<c, n>>] # <<>> => omsg[<<c, n>>] # <<>>
    /\ n # Replicas => \A r \in Range(omsg[<<c, n>>]) : r.op = "set"

\* Whatever a datalet stores was handed to the Kafka producer before (req_recv
\* calls produce before it forwards), so that a replay of the log can rebuild
\* every value any replica has shown a client.
AppliedIsLogged ==
  \A n \in Nodes : applied[n] \subseteq {ValueOf(r) : r \in Range(klog)}

Quiet ==
  /\ \A l \in Links : imsg[l] = <<>> /\ toDl[l] = <<>> /\ fromDl[l] = <<>>
  /\ \A c \in Clients : toProxy[c] = <<>>

Writers(k) == {r.cl : r \in {q \in Range(klog) : q.key = k}}

\* Without failures, once nothing is in flight, all replicas hold the same
\* value of every key that one connection alone has written.
SingleWriterAgreement ==
  Quiet /\ down = {} => \A k \in Keys :
    (\A c, d \in Writers(k) : c = d)
      => \A n \in Nodes : store[n][k] = store[0][k]

\* Without failures, once nothing is in flight, all replicas hold the same
\* value of every key: the consistency net.h:50 names as the purpose of cr.
ReplicasAgree ==
  Quiet /\ down = {} => \A n \in Nodes : store[n] = store[0]

\* Every request a client sends is answered in the end (no failures, no
\* closed connections).
EveryRequestAnswered ==
  \A c \in Clients, i \in 1..MaxOps :
    Len(issued[c]) >= i ~> Len(answers[c]) >= i

\* The service is linearizable: it implements the atomic map, the tail's table
\* being the map and the tail's handling of a request its linearization point.
Atomic == INSTANCE AtomicKV
            WITH kv <- store[Replicas], call <- issued, ret <- lin
ImplementsAtomicKV == Atomic!Spec

-----------------------------------------------------------------------------
(* The inductive invariant of a closed-loop client (Window = 1): its one   *)
(* outstanding request is in one place.                                    *)

Idle(c, n) ==
  /\ imsg[<<c, n>>] = <<>> /\ omsg[<<c, n>>] = <<>>
  /\ toDl[<<c, n>>] = <<>> /\ fromDl[<<c, n>>] = <<>>
NoReply(c) == cimsg[c] = <<>> /\ toClient[c] = <<>>

\* If r is a set, the nodes of S have stored it.
StoredAt(r, S) == r.op = "set" => \A n \in S : ValueOf(r) \in applied[n]

\* Nothing of c is in flight: it has no request outstanding, or has lost it.
Resting(c) ==
  toProxy[c] = <<>> /\ NoReply(c) /\ \A n \in Nodes : Idle(c, n)

\* The request is on its way to the proxy.
Sent(c) ==
  Len(toProxy[c]) = 1 /\ NoReply(c) /\ \A n \in Nodes : Idle(c, n)

\* Request r is at node n of the chain: queued for it, sent to it, answered by
\* it, or lost with it.  fwd still belongs to r, and the nodes before n have
\* stored it.
AtNode(c, n, r) ==
  /\ toProxy[c] = <<>> /\ NoReply(c)
  /\ \A m \in Nodes \ {n} : Idle(c, m)
  /\ fwd[c] = (r.op = "set")
  /\ r.op # "set" => n = Replicas
  /\ StoredAt(r, 0..(n - 1))
  /\ \/ /\ imsg[<<c, n>>] = <<r>> /\ omsg[<<c, n>>] = <<>>
        /\ toDl[<<c, n>>] = <<>> /\ fromDl[<<c, n>>] = <<>>
     \/ /\ imsg[<<c, n>>] = <<>> /\ omsg[<<c, n>>] = <<r>>
        /\ toDl[<<c, n>>] \in {<<>>, <<r>>} /\ fromDl[<<c, n>>] = <<>>
     \/ /\ imsg[<<c, n>>] = <<>> /\ omsg[<<c, n>>] = <<r>>
        /\ toDl[<<c, n>>] = <<>>
        /\ \E a \in Responses : a.req = r /\ fromDl[<<c, n>>] = <<a>>
        /\ StoredAt(r, 0..n)

\* The answer a is on its way to the client.
Replying(c, a) ==
  /\ toProxy[c] = <<>> /\ \A n \in Nodes : Idle(c, n)
  /\ \/ cimsg[c] = <<<<a>>>> /\ toClient[c] = <<>>
     \/ cimsg[c] = <<>> /\ toClient[c] = <<a>>
  /\ StoredAt(a.req, Nodes)

InFlight(c) ==
  \/ Sent(c)
  \/ \E n \in Nodes, r \in Requests : AtNode(c, n, r)
  \/ \E a \in Responses : Replying(c, a)

ClientOK(c) ==
  /\ Resting(c) \/ (InFlight(c) /\ Len(issued[c]) > Len(answers[c]))
  /\ Len(issued[c]) \in Len(answers[c])..(Len(answers[c]) + 1)
  /\ \A a \in Range(answers[c]) : StoredAt(a.req, Nodes)

\* A closed-loop client has at most one request in the system, the flag
\* fwd_to_replicas that the response handlers read is the one its own request
\* set, and the answers it has read are of requests stored on every node.
ClosedLoop == \A c \in Clients : ClientOK(c)
=============================================================================
