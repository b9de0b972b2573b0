--------------------------- MODULE ChainReplSteps ---------------------------
(***************************************************************************)
(* What is where in ChainRepl, for any number of clients, keys, replicas   *)
(* and requests, with datalets stopping and clients leaving at any moment: *)
(* types, and where the one request of a closed-loop client (Window = 1)   *)
(* is.                                                                     *)
(***************************************************************************)
EXTENDS ChainRepl, TLAPS

-----------------------------------------------------------------------------
(* Facts about sequences.                                                  *)

\* The operations of the queues keep the elements in their set.
LEMMA SeqOps ==
  ASSUME NEW S, NEW s \in Seq(S)
  PROVE  /\ \A x \in S : Append(s, x) \in Seq(S)
         /\ s # <<>> => Head(s) \in S /\ Tail(s) \in Seq(S)
         /\ \A t \in Seq(S) : s \o t \in Seq(S)
         /\ \A k \in 1..Len(s) : SubSeq(s, 1, k) \in Seq(S)
         /\ \A k \in 1..Len(s) : SubSeq(s, k + 1, Len(s)) \in Seq(S)
  OBVIOUS

\* Sequences of length one.
LEMMA LengthOne ==
  ASSUME NEW S, NEW s \in Seq(S), Len(s) = 1
  PROVE  s = <<s[1]>> /\ s[1] \in S
<1>1. s = <<s[1]>>
  OBVIOUS
<1>2. s[1] \in S
  OBVIOUS
<1> QED
  BY <1>1, <1>2

LEMMA Singleton ==
  ASSUME NEW x
  PROVE  /\ Len(<<x>>) = 1 /\ Head(<<x>>) = x /\ Tail(<<x>>) = <<>>
         /\ Append(<<>>, x) = <<x>> /\ <<x>> # <<>>
         /\ <<>> \o <<x>> = <<x>>
         /\ SubSeq(<<x>>, 1, 1) = <<x>> /\ SubSeq(<<x>>, 2, 1) = <<>>
         /\ Range(<<x>>) = {x}
<1>1. <<x>> \in Seq({x}) /\ Len(<<x>>) = 1 /\ <<x>>[1] = x
  OBVIOUS
<1>2. SubSeq(<<x>>, 1, 1) = <<x>>
  <2>1. SubSeq(<<x>>, 1, 1) \in Seq({x}) /\ Len(SubSeq(<<x>>, 1, 1)) = 1
    BY <1>1
  <2>2. SubSeq(<<x>>, 1, 1)[1] = x
    BY <1>1, <2>1
  <2> QED
    BY <2>1, <2>2, LengthOne, Zenon
<1>3. SubSeq(<<x>>, 2, 1) = <<>>
  OBVIOUS
<1>4. Range(<<x>>) = {x}
  BY DEF Range
<1>5. /\ Head(<<x>>) = x /\ Tail(<<x>>) = <<>> /\ Append(<<>>, x) = <<x>>
      /\ <<x>> # <<>> /\ <<>> \o <<x>> = <<x>>
  OBVIOUS
<1> QED
  BY <1>1, <1>2, <1>3, <1>4, <1>5

LEMMA SingletonEq == ASSUME NEW x, NEW y, <<x>> = <<y>> PROVE x = y
<1>1. Head(<<x>>) = x /\ Head(<<y>>) = y
  BY Singleton, Zenon
<1> QED
  BY <1>1, Zenon

LEMMA InSeqOne ==
  ASSUME NEW S, NEW x, <<x>> \in Seq(S)
  PROVE  x \in S
<1>1. Len(<<x>>) = 1 /\ <<x>>[1] = x
  OBVIOUS
<1> QED
  BY <1>1

\* Appending an element adds it to the elements.
LEMMA RangeAppend ==
  ASSUME NEW S, NEW s \in Seq(S), NEW x \in S
  PROVE  Range(Append(s, x)) = Range(s) \cup {x}
<1>1. /\ Len(Append(s, x)) = Len(s) + 1 /\ Len(s) \in Nat
      /\ \A i \in 1..Len(s) : Append(s, x)[i] = s[i]
      /\ Append(s, x)[Len(s) + 1] = x
  OBVIOUS
<1>2. DOMAIN Append(s, x) = 1..(Len(s) + 1) /\ DOMAIN s = 1..Len(s)
  BY <1>1
<1>3. ASSUME NEW y \in Range(Append(s, x)) PROVE y \in Range(s) \cup {x}
  <2>1. PICK i \in 1..(Len(s) + 1) : y = Append(s, x)[i]
    BY <1>2, <1>3 DEF Range
  <2> QED
    BY <1>1, <1>2, <2>1 DEF Range
<1>4. ASSUME NEW y \in Range(s) PROVE y \in Range(Append(s, x))
  <2>1. PICK i \in 1..Len(s) : y = s[i]
    BY <1>2, <1>4 DEF Range
  <2>2. i \in 1..(Len(s) + 1)
    BY <1>1
  <2> QED
    BY <1>1, <1>2, <2>1, <2>2 DEF Range
<1>5. x \in Range(Append(s, x))
  <2>1. Len(s) + 1 \in 1..(Len(s) + 1)
    BY <1>1
  <2> QED
    BY <1>1, <1>2, <2>1 DEF Range
<1> QED
  BY <1>3, <1>4, <1>5

\* Arithmetic of the chain.
LEMMA NodeFacts ==
  ASSUME NEW n \in Nodes
  PROVE  /\ n \in Nat /\ (n + 1) - 1 = n /\ n + 1 # n
         /\ n # Replicas => n + 1 \in Nodes
         /\ n = Replicas => 0..n = Nodes
         /\ 0..(n - 1) \in SUBSET Nodes /\ 0..n \in SUBSET Nodes
         /\ \A m \in 0..n : m = n \/ m \in 0..(n - 1)
  BY ConstantsAssumption DEF Nodes

-----------------------------------------------------------------------------
(* Types.                                                                  *)

LEMMA InitTypeOK == Init => TypeOK
<1>1. Nodes = 0..Replicas /\ NoVal \in Values
  BY DEF Nodes, Values
<1> QED
  BY <1>1 DEF Init, TypeOK

\* Queueing on a datalet link, and on the client link, keeps the types.
LEMMA ForwardType ==
  ASSUME TypeOK, NEW l \in Links, NEW r \in Requests, Forward(l, r)
  PROVE  /\ imsg' \in [Links -> Seq(Requests)]
         /\ ev' \in [Links -> SUBSET {"in", "out"}]
<1>1. Append(imsg[l], r) \in Seq(Requests)
  BY SeqOps DEF TypeOK
<1>2. imsg' \in [Links -> Seq(Requests)]
  BY <1>1 DEF Forward, TypeOK
<1>3. ev[l] \cup {"out"} \in SUBSET {"in", "out"}
  BY DEF TypeOK
<1>4. ev' \in [Links -> SUBSET {"in", "out"}]
  BY <1>3 DEF Forward, TypeOK
<1> QED
  BY <1>2, <1>4

LEMMA ReplyType ==
  ASSUME TypeOK, NEW c \in Clients, NEW m \in Seq(Responses), Reply(c, m)
  PROVE  /\ cimsg' \in [Clients -> Seq(Seq(Responses))]
         /\ cev' \in [Clients -> SUBSET {"in", "out"}]
<1>1. Append(cimsg[c], m) \in Seq(Seq(Responses))
  BY SeqOps DEF TypeOK
<1>2. cimsg' \in [Clients -> Seq(Seq(Responses))]
  BY <1>1 DEF Reply, TypeOK
<1>3. cev[c] \cup {"out"} \in SUBSET {"in", "out"}
  BY DEF TypeOK
<1>4. cev' \in [Clients -> SUBSET {"in", "out"}]
  BY <1>3 DEF Reply, TypeOK
<1> QED
  BY <1>2, <1>4

\* Every action keeps every variable in its type.
LEMMA NextTypeOK == TypeOK /\ [Next]_vars => TypeOK'
<1> SUFFICES ASSUME TypeOK, [Next]_vars PROVE TypeOK'
  OBVIOUS
<1> USE ConstantsAssumption
<1>1. ASSUME NEW c \in Clients, Issue(c) PROVE TypeOK'
  <2>1. PICK o \in Ops, k \in Keys :
          LET r == [cl |-> c, seq |-> Len(issued[c]) + 1, op |-> o, key |-> k]
          IN /\ issued' = [issued EXCEPT ![c] = Append(@, r)]
             /\ toProxy' = [toProxy EXCEPT ![c] = Append(@, r)]
    BY <1>1, Zenon DEF Issue
  <2>2. [cl |-> c, seq |-> Len(issued[c]) + 1, op |-> o, key |-> k] \in Requests
    <3>1. Len(issued[c]) \in Nat /\ Len(issued[c]) + 1 \in 1..MaxOps
      BY <1>1 DEF Issue, TypeOK
    <3> QED
      BY <3>1 DEF Requests
  <2> QED
    BY <1>1, <2>1, <2>2, SeqOps
    DEF Issue, TypeOK, proxyVars, dlVars
<1>2. ASSUME NEW c \in Clients, ClientRead(c) PROVE TypeOK'
  BY <1>2, SeqOps DEF ClientRead, TypeOK, proxyVars, dlVars
<1>3. ASSUME NEW c \in Clients, ClientClose(c) PROVE TypeOK'
  BY <1>3 DEF ClientClose, TypeOK, proxyVars, netVars, dlVars
<1>4. ASSUME NEW n \in CanFail, DataletStop(n) PROVE TypeOK'
  BY <1>4 DEF DataletStop, TypeOK, proxyVars, clientVars, netVars, Nodes
<1>5. ASSUME NEW c \in Clients, NEW n \in Nodes, HandleRequest(c, n)
      PROVE TypeOK'
  <2>1. <<c, n>> \in Links
    BY DEF Links
  <2>2. DEFINE r == Head(toDl[<<c, n>>])
  <2>3. r \in Requests /\ Answer(n, r) \in Responses /\ ValueOf(r) \in Values
    <3>1. r \in Requests
      BY <1>5, <2>1, SeqOps DEF HandleRequest, TypeOK
    <3>2. r.cl \in Clients /\ r.seq \in 1..MaxOps /\ r.key \in Keys
      BY <3>1 DEF Requests
    <3>3. ValueOf(r) \in Values
      BY <3>2 DEF Values, ValueOf
    <3>4. store[n][r.key] \in Values
      <4>1. store \in [Nodes -> [Keys -> Values]]
        BY DEF TypeOK
      <4> QED
        BY <3>2, <4>1
    <3>5. NoVal \in Values
      BY DEF Values
    <3> QED
      BY <3>1, <3>3, <3>4, <3>5 DEF Answer, Responses
  <2>4. toDl' \in [Links -> Seq(Requests)] /\ fromDl' \in [Links -> Seq(Responses)]
    BY <1>5, <2>1, <2>3, SeqOps, SMTT(30) DEF HandleRequest, TypeOK
  <2>5. lin' \in [Clients -> Seq(Responses)]
    BY <1>5, <2>3, SeqOps, Zenon DEF HandleRequest, TypeOK
  <2>6. store' \in [Nodes -> [Keys -> Values]]
    <3>1. r.key \in Keys
      BY <2>3 DEF Requests
    <3>2. [store[n] EXCEPT ![r.key] = ValueOf(r)] \in [Keys -> Values]
      BY <2>3, <3>1 DEF TypeOK
    <3> QED
      BY <1>5, <3>2, Zenon DEF HandleRequest, TypeOK
  <2>7. applied' \in [Nodes -> SUBSET Values]
    <3>1. applied \in [Nodes -> SUBSET Values]
      BY DEF TypeOK
    <3>2. applied' \in {applied, [applied EXCEPT ![n] = @ \cup {ValueOf(r)}]}
      BY <1>5, Zenon DEF HandleRequest
    <3>3. applied[n] \cup {ValueOf(r)} \in SUBSET Values
      BY <2>3, <3>1
    <3> QED
      BY <3>1, <3>2, <3>3
  <2> QED
    BY <1>5, <2>4, <2>5, <2>6, <2>7, Zenon
    DEF HandleRequest, TypeOK, proxyVars, clientVars
<1>6. ASSUME NEW c \in Clients, Accept(c) PROVE TypeOK'
  <2>1. /\ proxy' \in {"up", "exited"}
        /\ conn' \in [Clients -> {"new", "open", "closed"}]
    BY <1>6, ZenonT(60) DEF Accept, TypeOK
  <2>2. cev' \in [Clients -> SUBSET {"in", "out"}]
    <3>1. cev \in [Clients -> SUBSET {"in", "out"}] /\ {"in"} \in SUBSET {"in", "out"}
      BY DEF TypeOK
    <3>2. cev' \in {cev, [cev EXCEPT ![c] = {"in"}]}
      BY <1>6 DEF Accept
    <3> QED
      BY <3>1, <3>2
  <2> QED
    BY <1>6, <2>1, <2>2, SMTT(30) DEF Accept, TypeOK, netVars, dlVars
<1>7. ASSUME NEW c \in Clients, ReqRecv(c) PROVE TypeOK'
  <2>1. DEFINE r == Head(toProxy[c])
  <2>2. r \in Requests /\ Tail(toProxy[c]) \in Seq(Requests)
    BY <1>7, SeqOps DEF ReqRecv, TypeOK
  <2>3. Target(r) \in Nodes /\ Replicas \in Nodes
    BY DEF Target, Nodes
  <2>4. <<c, Target(r)>> \in Links /\ <<c, Replicas>> \in Links
    BY <2>3 DEF Links
  <2>5. Produce(r) \in Seq(Requests)
    BY <2>2, SeqOps DEF Produce, TypeOK
  <2>6. Forwards(r) \in BOOLEAN
    BY DEF Forwards
  <2>7. /\ imsg' \in [Links -> Seq(Requests)]
        /\ ev' \in [Links -> SUBSET {"in", "out"}]
    BY <1>7, <2>2, <2>4, ForwardType DEF ReqRecv
  <2>8. fwd' \in [Clients -> BOOLEAN]
    BY <1>7, <2>6 DEF ReqRecv, TypeOK
  <2> QED
    BY <1>7, <2>2, <2>4, <2>5, <2>7, <2>8, Zenon
    DEF ReqRecv, TypeOK, clientVars, dlVars
<1>8. ASSUME NEW c \in Clients, ReqRecvEof(c) PROVE TypeOK'
  BY <1>8 DEF ReqRecvEof, TypeOK, clientVars, dlVars
<1>9. ASSUME NEW l \in Links, SendHead(l) PROVE TypeOK'
  <2>1. imsg[l] # <<>> =>
          /\ Tail(imsg[l]) \in Seq(Requests)
          /\ Append(omsg[l], Head(imsg[l])) \in Seq(Requests)
          /\ Append(toDl[l], Head(imsg[l])) \in Seq(Requests)
    BY SeqOps DEF TypeOK
  <2>2. ev' \in [Links -> SUBSET {"in", "out"}]
    <3>1. ev \in [Links -> SUBSET {"in", "out"}]
      BY DEF TypeOK
    <3>2. /\ ev[l] \cup {"in"} \in SUBSET {"in", "out"}
          /\ ev[l] \ {"out"} \in SUBSET {"in", "out"}
          /\ {} \in SUBSET {"in", "out"}
      BY <3>1
    <3>3. PICK e \in {ev[l] \cup {"in"}, ev[l] \ {"out"}, {}} :
            ev' = [ev EXCEPT ![l] = e]
      BY <1>9 DEF SendHead
    <3> QED
      BY <3>1, <3>2, <3>3
  <2>3. /\ imsg' \in [Links -> Seq(Requests)] /\ omsg' \in [Links -> Seq(Requests)]
        /\ toDl' \in [Links -> Seq(Requests)]
    <3>1. /\ imsg \in [Links -> Seq(Requests)] /\ omsg \in [Links -> Seq(Requests)]
          /\ toDl \in [Links -> Seq(Requests)]
      BY DEF TypeOK
    <3>2. imsg' \in {imsg, [imsg EXCEPT ![l] = Tail(@)]} /\ (imsg[l] = <<>> => imsg' = imsg)
      BY <1>9 DEF SendHead
    <3>3. \/ UNCHANGED <<omsg, toDl>>
          \/ /\ imsg[l] # <<>>
             /\ omsg' = [omsg EXCEPT ![l] = Append(@, Head(imsg[l]))]
             /\ toDl' = [toDl EXCEPT ![l] = Append(@, Head(imsg[l]))]
      BY <1>9 DEF SendHead
    <3>4. imsg' \in [Links -> Seq(Requests)]
      BY <2>1, <3>1, <3>2, Zenon
    <3>5. omsg' \in [Links -> Seq(Requests)] /\ toDl' \in [Links -> Seq(Requests)]
      BY <2>1, <3>1, <3>3, ZenonT(60)
    <3> QED
      BY <3>4, <3>5
  <2>4. err' \in [Links -> BOOLEAN]
    BY <1>9, Zenon DEF SendHead, TypeOK
  <2> QED
    BY <1>9, <2>2, <2>3, <2>4 DEF SendHead, TypeOK, clientVars, dlVars
<1>10. ASSUME NEW c \in Clients, RspRecv(c) PROVE TypeOK'
  <2>1. DEFINE l == <<c, 0>>
  <2>2. l \in Links /\ <<c, 1>> \in Links
    BY DEF Links, Nodes
  <2>3. PICK k \in 1..Len(fromDl[l]) :
          /\ ReadBuffer(l, k)
          /\ IF fwd[c]
             THEN Forward(<<c, 1>>, Head(omsg[l])) /\ UNCHANGED <<cimsg, cev>>
             ELSE Reply(c, SubSeq(fromDl[l], 1, k)) /\ UNCHANGED <<imsg, ev>>
    BY <1>10 DEF RspRecv
  <2>4. /\ Head(omsg[l]) \in Requests /\ Tail(omsg[l]) \in Seq(Requests)
        /\ SubSeq(fromDl[l], 1, k) \in Seq(Responses)
        /\ SubSeq(fromDl[l], k + 1, Len(fromDl[l])) \in Seq(Responses)
    BY <2>2, <2>3, SeqOps, Zenon DEF ReadBuffer, TypeOK
  <2>5. /\ imsg' \in [Links -> Seq(Requests)]
        /\ ev' \in [Links -> SUBSET {"in", "out"}]
        /\ cimsg' \in [Clients -> Seq(Seq(Responses))]
        /\ cev' \in [Clients -> SUBSET {"in", "out"}]
    <3>1. CASE fwd[c]
      <4>1. Forward(<<c, 1>>, Head(omsg[l])) /\ UNCHANGED <<cimsg, cev>>
        BY <2>3, <3>1
      <4> QED
        BY <2>2, <2>4, <4>1, ForwardType, Zenon DEF TypeOK
    <3>2. CASE ~fwd[c]
      <4>1. Reply(c, SubSeq(fromDl[l], 1, k)) /\ UNCHANGED <<imsg, ev>>
        BY <2>3, <3>2
      <4> QED
        BY <2>4, <4>1, ReplyType, Zenon DEF TypeOK
    <3> QED
      BY <3>1, <3>2
  <2> QED
    BY <1>10, <2>2, <2>3, <2>4, <2>5, Zenon
    DEF RspRecv, ReadBuffer, TypeOK, clientVars, dlVars
<1>11. ASSUME NEW c \in Clients, NEW n \in Slaves, ReplicaRspRecv(c, n)
       PROVE TypeOK'
  <2>1. DEFINE l == <<c, n>>
  <2>2. l \in Links /\ (~AtTail(n) => <<c, n + 1>> \in Links)
    BY DEF Links, Nodes, Slaves, AtTail
  <2>3. PICK k \in 1..Len(fromDl[l]) :
          /\ ReadBuffer(l, k)
          /\ \/ /\ fwd[c] /\ ~AtTail(n)
                /\ Forward(<<c, n + 1>>, Head(omsg[l]))
                /\ UNCHANGED <<cimsg, cev, tail>>
             \/ /\ Reply(c, SubSeq(fromDl[l], 1, k))
                /\ tail' \in {tail, [tail EXCEPT ![l] = "false"]}
                /\ UNCHANGED <<imsg, ev>>
             \/ /\ tail' = [tail EXCEPT ![l] = "false"]
                /\ UNCHANGED <<imsg, ev, cimsg, cev>>
    BY <1>11 DEF ReplicaRspRecv
  <2>4. /\ Head(omsg[l]) \in Requests /\ Tail(omsg[l]) \in Seq(Requests)
        /\ SubSeq(fromDl[l], 1, k) \in Seq(Responses)
        /\ SubSeq(fromDl[l], k + 1, Len(fromDl[l])) \in Seq(Responses)
    BY <2>2, <2>3, SeqOps, Zenon DEF ReadBuffer, TypeOK
  <2>5. tail' \in [Links -> {"unset", "true", "false"}]
    BY <2>2, <2>3, Zenon DEF TypeOK
  <2>6. /\ imsg' \in [Links -> Seq(Requests)]
        /\ ev' \in [Links -> SUBSET {"in", "out"}]
        /\ cimsg' \in [Clients -> Seq(Seq(Responses))]
        /\ cev' \in [Clients -> SUBSET {"in", "out"}]
    <3>1. CASE ~AtTail(n) /\ Forward(<<c, n + 1>>, Head(omsg[l])) /\ UNCHANGED <<cimsg, cev>>
      BY <2>2, <2>4, <3>1, ForwardType, Zenon DEF TypeOK
    <3>2. CASE Reply(c, SubSeq(fromDl[l], 1, k)) /\ UNCHANGED <<imsg, ev>>
      BY <2>4, <3>2, ReplyType, Zenon DEF TypeOK
    <3>3. CASE UNCHANGED <<imsg, ev, cimsg, cev>>
      BY <3>3, SMTT(30) DEF TypeOK
    <3> QED
      BY <2>3, <3>1, <3>2, <3>3
  <2> QED
    BY <1>11, <2>2, <2>3, <2>4, <2>5, <2>6, Zenon
    DEF ReplicaRspRecv, ReadBuffer, TypeOK, clientVars, dlVars
<1>12. ASSUME NEW c \in Clients, NEW n \in Nodes, RspRecvFail(c, n)
       PROVE TypeOK'
  <2>1. <<c, n>> \in Links
    BY DEF Links
  <2>2. {} \in SUBSET {"in", "out"} /\ <<>> \in Seq(Responses)
    OBVIOUS
  <2> QED
    BY <1>12, <2>1, <2>2, SMTT(30) DEF RspRecvFail, TypeOK, clientVars, dlVars
<1>13. ASSUME NEW c \in Clients, RspSend(c) PROVE TypeOK'
  <2>1. cimsg[c] # <<>> =>
          /\ Tail(cimsg[c]) \in Seq(Seq(Responses))
          /\ toClient[c] \o Head(cimsg[c]) \in Seq(Responses)
    BY SeqOps DEF TypeOK
  <2>2. cev[c] \ {"out"} \in SUBSET {"in", "out"} /\ {} \in SUBSET {"in", "out"}
    BY DEF TypeOK
  <2>3. cev' \in [Clients -> SUBSET {"in", "out"}]
    <3>1. cev \in [Clients -> SUBSET {"in", "out"}]
      BY DEF TypeOK
    <3>2. cev' \in {cev, [cev EXCEPT ![c] = @ \ {"out"}], [cev EXCEPT ![c] = {}]}
      BY <1>13, Zenon DEF RspSend
    <3> QED
      BY <2>2, <3>1, <3>2
  <2>4. cerr' \in [Clients -> BOOLEAN]
    BY <1>13, Zenon DEF RspSend, TypeOK
  <2>5. /\ cimsg' \in [Clients -> Seq(Seq(Responses))]
        /\ toClient' \in [Clients -> Seq(Responses)]
    <3>1. /\ cimsg \in [Clients -> Seq(Seq(Responses))]
          /\ toClient \in [Clients -> Seq(Responses)]
      BY DEF TypeOK
    <3> QED
      BY <1>13, <2>1, <3>1, ZenonT(60) DEF RspSend
  <2> QED
    BY <1>13, <2>3, <2>4, <2>5, Zenon DEF RspSend, TypeOK, clientVars, dlVars
<1>14. CASE UNCHANGED vars
  BY <1>14 DEF TypeOK, vars, proxyVars, clientVars, netVars, dlVars
<1>15. ASSUME NEW c \in Clients, Handlers(c) PROVE TypeOK'
  <2>1. \A n \in Slaves : n \in Nodes /\ <<c, n>> \in Links
    BY DEF Links, Nodes, Slaves
  <2>2. <<c, 0>> \in Links
    BY DEF Links, Nodes
  <2> QED
    BY <1>7, <1>8, <1>9, <1>10, <1>11, <1>12, <1>13, <1>15, <2>1, <2>2, Zenon
    DEF Handlers, ReqSend, ReplicaReqSend
<1> QED
  BY <1>1, <1>2, <1>3, <1>4, <1>5, <1>6, <1>14, <1>15 DEF Next

\* Every variable stays in its type in every behaviour.
THEOREM TypeCorrect == Spec => []TypeOK
  BY InitTypeOK, NextTypeOK, PTL DEF Spec

-----------------------------------------------------------------------------
(* Where the request of a closed-loop client is.                           *)

Phases(c) == Resting(c) \/ InFlight(c)

\* A request on the wire to the proxy is alone in the system.
LEMMA FindSent ==
  ASSUME NEW c \in Clients, Phases(c), toProxy[c] # <<>>
  PROVE  Sent(c)
  BY Zenon DEF Phases, Resting, InFlight, AtNode, Replying

\* A request queued for a node is the client's only one.
LEMMA FindQueued ==
  ASSUME NEW c \in Clients, NEW n \in Nodes, Phases(c), imsg[<<c, n>>] # <<>>
  PROVE  \E r \in Requests : AtNode(c, n, r) /\ imsg[<<c, n>>] = <<r>>
<1>1. PICK m \in Nodes, r \in Requests : AtNode(c, m, r)
  BY Zenon DEF Phases, Resting, InFlight, Sent, Replying, Idle
<1>2. m = n
  BY <1>1, Zenon DEF AtNode, Idle
<1> QED
  BY <1>1, <1>2, Zenon DEF AtNode

\* So is a request on the wire to a datalet.
LEMMA FindToDl ==
  ASSUME NEW c \in Clients, NEW n \in Nodes, Phases(c), toDl[<<c, n>>] # <<>>
  PROVE  \E r \in Requests : AtNode(c, n, r) /\ toDl[<<c, n>>] = <<r>>
<1>1. PICK m \in Nodes, r \in Requests : AtNode(c, m, r)
  BY ZenonT(60) DEF Phases, Resting, InFlight, Sent, Replying, Idle
<1>2. m = n
  BY <1>1, Zenon DEF AtNode, Idle
<1> QED
  BY <1>1, <1>2, Zenon DEF AtNode

\* So is an answer on the wire from a datalet, which has stored the request.
LEMMA FindFromDl ==
  ASSUME NEW c \in Clients, NEW n \in Nodes, Phases(c), fromDl[<<c, n>>] # <<>>
  PROVE  \E r \in Requests, a \in Responses :
           /\ AtNode(c, n, r) /\ a.req = r
           /\ fromDl[<<c, n>>] = <<a>> /\ omsg[<<c, n>>] = <<r>>
           /\ imsg[<<c, n>>] = <<>> /\ toDl[<<c, n>>] = <<>>
           /\ StoredAt(r, 0..n)
<1>1. PICK m \in Nodes, r \in Requests : AtNode(c, m, r)
  BY ZenonT(60) DEF Phases, Resting, InFlight, Sent, Replying, Idle
<1>2. m = n
  BY <1>1 DEF AtNode, Idle
<1> QED
  BY <1>1, <1>2, Zenon DEF AtNode

\* So is an answer on its way to the client.
LEMMA FindReply ==
  ASSUME NEW c \in Clients, Phases(c), ~NoReply(c)
  PROVE  \E a \in Responses : Replying(c, a)
  BY Zenon DEF Phases, Resting, InFlight, Sent, AtNode

-----------------------------------------------------------------------------
(* What leaves a client's state alone keeps its invariant.                 *)

SameLink(l) ==
  imsg'[l] = imsg[l] /\ omsg'[l] = omsg[l] /\ toDl'[l] = toDl[l] /\ fromDl'[l] = fromDl[l]
SameClient(d) ==
  /\ toProxy'[d] = toProxy[d] /\ cimsg'[d] = cimsg[d]
  /\ toClient'[d] = toClient[d] /\ fwd'[d] = fwd[d]
  /\ issued'[d] = issued[d] /\ answers'[d] = answers[d]
  /\ \A n \in Nodes : SameLink(<<d, n>>)
Grows == \A n \in Nodes : applied[n] \subseteq applied'[n]

LEMMA StoredGrows ==
  ASSUME Grows, NEW r, NEW S \in SUBSET Nodes, StoredAt(r, S)
  PROVE  StoredAt(r, S)'
  BY SMTT(30) DEF Grows, StoredAt, ValueOf

LEMMA Frame ==
  ASSUME NEW d \in Clients, ClientOK(d), SameClient(d), Grows
  PROVE  ClientOK(d)'
<1>1. \A n \in Nodes : Idle(d, n) => Idle(d, n)'
  BY ZenonT(60) DEF SameClient, SameLink, Idle
<1>2. NoReply(d) => NoReply(d)'
  BY Zenon DEF SameClient, NoReply
<1>3. Resting(d) => Resting(d)'
  BY <1>1, <1>2, Zenon DEF Resting, SameClient
<1>4. Sent(d) => Sent(d)'
  BY <1>1, <1>2, Zenon DEF Sent, SameClient
<1>5. ASSUME NEW n \in Nodes, NEW r \in Requests, AtNode(d, n, r)
      PROVE  AtNode(d, n, r)'
  <2>1. 0..(n - 1) \in SUBSET Nodes /\ 0..n \in SUBSET Nodes
    BY NodeFacts, SMTT(30)
  <2>2. StoredAt(r, 0..(n - 1))'
    BY <1>5, <2>1, StoredGrows, Zenon DEF AtNode
  <2>3. StoredAt(r, 0..n) => StoredAt(r, 0..n)'
    BY <2>1, StoredGrows, Zenon
  <2> QED
    BY <1>1, <1>2, <1>5, <2>2, <2>3, Zenon DEF AtNode, SameClient, SameLink
<1>6. ASSUME NEW a \in Responses, Replying(d, a) PROVE Replying(d, a)'
  <2>1. StoredAt(a.req, Nodes)'
    BY <1>6, StoredGrows, Zenon DEF Replying
  <2> QED
    BY <1>1, <1>6, <2>1, Zenon DEF Replying, SameClient
<1>7. InFlight(d) => InFlight(d)'
  BY <1>4, <1>5, <1>6 DEF InFlight
<1>8. \A a \in Range(answers'[d]) : StoredAt(a.req, Nodes)'
  BY StoredGrows, Zenon DEF ClientOK, SameClient
<1>9. issued'[d] = issued[d] /\ answers'[d] = answers[d]
  BY Zenon DEF SameClient
<1> QED
  BY <1>3, <1>7, <1>8, <1>9, Zenon DEF ClientOK

-----------------------------------------------------------------------------
(* The inductive invariant.                                                *)

Inv == TypeOK /\ ClosedLoop /\ ChainOrder

LEMMA InitInv == Init => Inv
<1> SUFFICES ASSUME Init PROVE Inv
  OBVIOUS
<1>1. TypeOK
  BY InitTypeOK
<1>2. ASSUME NEW c \in Clients PROVE ClientOK(c)
  <2>1. Resting(c)
    BY DEF Init, Resting, NoReply, Idle, Links
  <2>2. issued[c] = <<>> /\ answers[c] = <<>> /\ Range(answers[c]) = {}
    BY DEF Init, Range
  <2> QED
    BY <2>1, <2>2 DEF ClientOK
<1>3. ChainOrder
  BY ConstantsAssumption DEF Init, ChainOrder, Slaves, Nodes
<1> QED
  BY <1>1, <1>2, <1>3 DEF Inv, ClosedLoop

\* Steps of the clients.
LEMMA ClientSteps ==
  ASSUME Inv, TypeOK', Window = 1, NEW c \in Clients,
         Issue(c) \/ ClientRead(c) \/ ClientClose(c)
  PROVE  ClosedLoop'
<1>1. ClientOK(c) /\ Grows
  BY Zenon DEF Inv, ClosedLoop, Issue, ClientRead, ClientClose, dlVars, Grows
<1>2. ASSUME NEW d \in Clients, d # c PROVE ClientOK(d)'
  <2>1. /\ issued'[d] = issued[d] /\ answers'[d] = answers[d]
        /\ toProxy'[d] = toProxy[d] /\ toClient'[d] = toClient[d]
    <3>0. /\ issued \in [Clients -> Seq(Requests)] /\ answers \in [Clients -> Seq(Responses)]
          /\ toProxy \in [Clients -> Seq(Requests)] /\ toClient \in [Clients -> Seq(Responses)]
      BY Zenon DEF Inv, TypeOK
    <3>1. CASE Issue(c)
      BY <1>2, <3>0, <3>1, Zenon DEF Issue
    <3>2. CASE ClientRead(c)
      BY <1>2, <3>0, <3>2, Zenon DEF ClientRead
    <3>3. CASE ClientClose(c)
      BY <3>3, Zenon DEF ClientClose, netVars
    <3> QED
      BY <3>1, <3>2, <3>3, Zenon
  <2>2. UNCHANGED <<cimsg, fwd, imsg, omsg, toDl, fromDl>>
    BY Zenon DEF Issue, ClientRead, ClientClose, proxyVars, netVars
  <2>3. SameClient(d)
    BY <2>1, <2>2, Zenon DEF SameClient, SameLink
  <2> QED
    BY <1>1, <2>3, Frame DEF Inv, ClosedLoop
<1>3. CASE Issue(c)
  <2>1. PICK r \in Requests :
          /\ issued' = [issued EXCEPT ![c] = Append(@, r)]
          /\ toProxy' = [toProxy EXCEPT ![c] = Append(@, r)]
    <3>1. PICK r : /\ issued' = [issued EXCEPT ![c] = Append(@, r)]
                   /\ toProxy' = [toProxy EXCEPT ![c] = Append(@, r)]
      BY <1>3, Zenon DEF Issue
    <3>2. Append(issued[c], r) \in Seq(Requests) /\ issued[c] \in Seq(Requests)
      <4>1. /\ issued \in [Clients -> Seq(Requests)]
            /\ issued' \in [Clients -> Seq(Requests)]
        BY Zenon DEF TypeOK, Inv
      <4>2. issued'[c] = Append(issued[c], r)
        BY <3>1, <4>1, Zenon
      <4> QED
        BY <4>1, <4>2, Zenon
    <3>3. r \in Requests
      BY <3>2
    <3> QED
      BY <3>1, <3>3, Zenon
  <2>2. Resting(c) /\ Len(issued[c]) = Len(answers[c])
    <3>1. Len(issued[c]) \in Nat /\ Len(answers[c]) \in Nat
      BY DEF Inv, TypeOK
    <3>2. Len(issued[c]) < Len(answers[c]) + 1
      BY <1>3, Zenon DEF Issue
    <3>3. ~(Len(issued[c]) > Len(answers[c]))
      BY <3>1, <3>2
    <3>4. Resting(c)
      BY <1>1, <3>3 DEF ClientOK
    <3>5. Len(issued[c]) >= Len(answers[c])
      BY DEF Inv, ClosedLoop, ClientOK
    <3> QED
      BY <3>1, <3>3, <3>4, <3>5
  <2>3. Sent(c)'
    <3>0. toProxy \in [Clients -> Seq(Requests)] /\ toProxy[c] = <<>>
      BY <2>2, Zenon DEF Inv, TypeOK, Resting
    <3>1. toProxy'[c] = <<r>>
      BY <2>1, <3>0
    <3> QED
      BY <1>3, <2>2, <3>1, Singleton, ZenonT(60)
      DEF Issue, Resting, Sent, NoReply, Idle, proxyVars
  <2>4. Len(issued'[c]) = Len(issued[c]) + 1 /\ answers' = answers
    <3>1. issued \in [Clients -> Seq(Requests)] /\ answers' = answers
      BY <1>3, Zenon DEF Issue, Inv, TypeOK
    <3> QED
      BY <2>1, <3>1
  <2>5. Len(issued[c]) \in Nat
    BY DEF Inv, TypeOK
  <2>6. \A a \in Range(answers'[c]) : StoredAt(a.req, Nodes)'
    BY <1>1, <2>4, StoredGrows DEF ClientOK
  <2> QED
    BY <1>2, <2>2, <2>3, <2>4, <2>5, <2>6 DEF ClosedLoop, ClientOK, InFlight
<1>4. CASE ClientRead(c)
  <2>1. PICK a \in Responses : Replying(c, a)
    BY <1>1, <1>4, FindReply, Zenon DEF ClientRead, ClientOK, Phases, NoReply
  <2>2. toClient[c] = <<a>> /\ cimsg[c] = <<>>
    BY <1>4, <2>1, Zenon DEF ClientRead, Replying
  <2>0. answers \in [Clients -> Seq(Responses)] /\ toClient \in [Clients -> Seq(Responses)]
        /\ issued \in [Clients -> Seq(Requests)] /\ issued' = issued
    BY <1>4, Zenon DEF ClientRead, Inv, TypeOK
  <2>3. toClient'[c] = <<>> /\ answers'[c] = Append(answers[c], a)
    BY <1>4, <2>0, <2>2, Singleton, Zenon DEF ClientRead
  <2>4. Resting(c)'
    BY <1>4, <2>1, <2>2, <2>3, Zenon
    DEF ClientRead, Replying, Resting, NoReply, Idle, proxyVars
  <2>5. Range(answers'[c]) = Range(answers[c]) \cup {a}
    <3>1. answers[c] \in Seq(Responses)
      BY <2>0, Zenon
    <3> QED
      BY <2>3, <3>1, RangeAppend
  <2>6. \A b \in Range(answers'[c]) : StoredAt(b.req, Nodes)'
    BY <1>1, <2>1, <2>5, StoredGrows, Zenon DEF ClientOK, Replying
  <2>7. /\ Len(answers'[c]) = Len(answers[c]) + 1 /\ issued' = issued
        /\ Len(answers[c]) \in Nat /\ Len(issued[c]) \in Nat
    BY <2>0, <2>3
  <2>8. Len(issued[c]) = Len(answers[c]) + 1
    <3>1. ~Resting(c)
      BY <2>2, Singleton, Zenon DEF Resting, NoReply
    <3> QED
      BY <1>1, <2>7, <3>1 DEF ClientOK
  <2> QED
    BY <1>2, <2>4, <2>6, <2>7, <2>8, SMTT(30) DEF ClosedLoop, ClientOK
<1>5. CASE ClientClose(c)
  <2>1. SameClient(c)
    BY <1>5, Zenon DEF ClientClose, SameClient, SameLink, proxyVars, netVars
  <2> QED
    BY <1>1, <1>2, <2>1, Frame, SMTT(30) DEF ClosedLoop
<1> QED
  BY <1>3, <1>4, <1>5, SMTT(30)

\* What the step proofs have in common: the acting client's conjunct from its
\* new phase, the others' from Frame.
LEMMA Moved ==
  ASSUME Inv, TypeOK', Grows, UNCHANGED <<issued, answers>>, NEW c \in Clients,
         \A d \in Clients \ {c} : SameClient(d),
         Resting(c)' \/ InFlight(c)', InFlight(c)' => ~Resting(c)
  PROVE  ClosedLoop'
<1>1. ASSUME NEW d \in Clients, d # c PROVE ClientOK(d)'
  BY <1>1, Frame DEF Inv, ClosedLoop
<1>2. ClientOK(c)
  BY DEF Inv, ClosedLoop
<1>3. \A a \in Range(answers'[c]) : StoredAt(a.req, Nodes)'
  BY <1>2, StoredGrows DEF ClientOK
<1>4. ClientOK(c)'
  BY <1>2, <1>3 DEF ClientOK
<1> QED
  BY <1>1, <1>4 DEF ClosedLoop

\* A datalet stores and answers the request it was sent.
LEMMA HandleRequestStep ==
  ASSUME Inv, TypeOK', NEW c \in Clients, NEW n \in Nodes, HandleRequest(c, n)
  PROVE  ClosedLoop' /\ ChainOrder'
<1>0. <<c, n>> \in Links /\ ClientOK(c) /\ n \in Nat
  BY ConstantsAssumption DEF Links, Inv, ClosedLoop, Nodes
<1>1. PICK r \in Requests : AtNode(c, n, r) /\ toDl[<<c, n>>] = <<r>>
  BY <1>0, FindToDl DEF HandleRequest, ClientOK, Phases
<1>2. Head(toDl[<<c, n>>]) = r /\ Tail(toDl[<<c, n>>]) = <<>>
  BY <1>1, Singleton, SMTT(30)
<1>3. imsg[<<c, n>>] = <<>> /\ omsg[<<c, n>>] = <<r>> /\ fromDl[<<c, n>>] = <<>>
  BY <1>1, Singleton, Zenon DEF AtNode
<1>5. IF r.op = "set" THEN applied' = [applied EXCEPT ![n] = @ \cup {ValueOf(r)}]
      ELSE applied' = applied
  BY <1>2 DEF HandleRequest
<1>4. Grows
  <2>1. applied \in [Nodes -> SUBSET Values]
    BY DEF Inv, TypeOK
  <2> QED
    BY <1>5, <2>1 DEF Grows
<1>6. StoredAt(r, 0..n)'
  <2>1. ASSUME r.op = "set", NEW m \in 0..n PROVE ValueOf(r) \in applied'[m]
    <3>1. CASE m = n
      <4>1. applied \in [Nodes -> SUBSET Values]
        BY Zenon DEF Inv, TypeOK
      <4> QED
        BY <1>5, <2>1, <3>1, <4>1, Zenon
    <3>2. CASE m \in 0..(n - 1)
      <4>1. m \in Nodes
        BY <1>0, <3>2, ConstantsAssumption, SMTT(30) DEF Nodes
      <4> QED
        BY <1>1, <1>4, <2>1, <3>2, <4>1, Zenon DEF AtNode, StoredAt, Grows
    <3> QED
      BY <1>0, <3>1, <3>2, SMTT(30)
  <2> QED
    BY <2>1 DEF StoredAt, ValueOf
<1>7. fromDl'[<<c, n>>] = <<Answer(n, r)>> /\ toDl'[<<c, n>>] = <<>>
  BY <1>0, <1>2, <1>3, Singleton, ZenonT(60) DEF HandleRequest, Inv, TypeOK
<1>8. Answer(n, r) \in Responses /\ Answer(n, r).req = r
  <2>1. fromDl'[<<c, n>>] \in Seq(Responses)
    BY <1>0 DEF TypeOK
  <2>2. <<Answer(n, r)>> \in Seq(Responses)
    BY <1>7, <2>1, Zenon
  <2>3. Answer(n, r) \in Responses
    BY <2>2, InSeqOne
  <2>4. Answer(n, r).req = r
    BY SMTT(30) DEF Answer
  <2> QED
    BY <2>3, <2>4
<1>9. \A l \in Links \ {<<c, n>>} : SameLink(l)
  <2>1. toDl \in [Links -> Seq(Requests)] /\ fromDl \in [Links -> Seq(Responses)]
    BY Zenon DEF Inv, TypeOK
  <2>2. imsg' = imsg /\ omsg' = omsg
    BY DEF HandleRequest, proxyVars
  <2>3. ASSUME NEW l \in Links \ {<<c, n>>} PROVE toDl'[l] = toDl[l] /\ fromDl'[l] = fromDl[l]
    BY <2>1, <2>3, Zenon DEF HandleRequest
  <2> QED
    BY <2>2, <2>3, Zenon DEF SameLink
<1>10. AtNode(c, n, r)'
  <2>1. \A m \in Nodes \ {n} : Idle(c, m)'
    BY <1>1, <1>9, ZenonT(60) DEF AtNode, Idle, SameLink, Links
  <2>2. /\ toProxy' = toProxy /\ cimsg' = cimsg /\ toClient' = toClient
        /\ fwd' = fwd /\ imsg' = imsg /\ omsg' = omsg
    BY DEF HandleRequest, proxyVars
  <2>3. StoredAt(r, 0..(n - 1))'
    BY <1>0, <1>6 DEF StoredAt
  <2> QED
    BY <1>1, <1>3, <1>6, <1>7, <1>8, <2>1, <2>2, <2>3, Zenon DEF AtNode, NoReply
<1>11. ASSUME NEW d \in Clients \ {c} PROVE SameClient(d)
  <2>1. \A m \in Nodes : SameLink(<<d, m>>)
    BY <1>9, SMTT(30) DEF Links
  <2> QED
    BY <2>1 DEF HandleRequest, SameClient, proxyVars, clientVars
<1>12. ~Resting(c)
  BY <1>3, Singleton, Zenon DEF Resting, Idle
<1>13. ClosedLoop'
  <2>1. InFlight(c)'
    BY <1>10 DEF InFlight
  <2>2. UNCHANGED <<issued, answers>>
    BY SMTT(30) DEF HandleRequest, clientVars
  <2> QED
    BY <1>4, <1>11, <1>12, <2>1, <2>2, Moved
<1>14. ChainOrder'
  <2>1. ASSUME NEW m \in Slaves, NEW v \in applied'[m] PROVE v \in applied'[m - 1]
    <3>1. m \in Nodes /\ m - 1 \in Nodes /\ m - 1 \in Nat
      BY ConstantsAssumption DEF Slaves, Nodes
    <3>2. CASE v \in applied[m]
      BY <1>4, <3>1, <3>2 DEF Inv, ChainOrder, Grows
    <3>3. CASE v \notin applied[m]
      <4>1. m = n /\ r.op = "set" /\ v = ValueOf(r)
        <5>1. applied \in [Nodes -> SUBSET Values]
          BY Zenon DEF Inv, TypeOK
        <5> QED
          BY <1>5, <2>1, <3>1, <3>3, <5>1, SMTT(30)
      <4>2. m - 1 \in 0..n
        BY <1>0, <3>1, <4>1
      <4> QED
        BY <1>6, <4>1, <4>2 DEF StoredAt, ValueOf
    <3> QED
      BY <3>2, <3>3
  <2> QED
    BY <2>1, Zenon DEF ChainOrder
<1> QED
  BY <1>13, <1>14

\* The proxy takes a request off the client's socket, or meets its end.
LEMMA ReqRecvStep ==
  ASSUME Inv, TypeOK', NEW c \in Clients, ReqRecv(c)
  PROVE  ClosedLoop'
<1>1. Sent(c)
  BY FindSent, Zenon DEF Inv, ClosedLoop, ClientOK, Phases, ReqRecv
<1>2. PICK r \in Requests : toProxy[c] = <<r>>
  <2>1. toProxy[c] \in Seq(Requests) /\ Len(toProxy[c]) = 1
    BY <1>1, Zenon DEF Inv, TypeOK, Sent
  <2> QED
    BY <2>1, LengthOne, SMTT(30)
<1>3. Head(toProxy[c]) = r /\ Tail(toProxy[c]) = <<>> /\ toProxy[c] # <<>>
  BY <1>2, Singleton
<1>4. DEFINE n == Target(r)
<1>5. n \in Nodes /\ <<c, n>> \in Links /\ n \in Nat
  BY ConstantsAssumption, SMTT(30) DEF Target, Nodes, Links
<1>6. imsg'[<<c, n>>] = <<r>>
  <2>1. imsg[<<c, n>>] = <<>> /\ imsg \in [Links -> Seq(Requests)]
    BY <1>1, <1>5, Zenon DEF Sent, Idle, Inv, TypeOK
  <2> QED
    BY <1>3, <1>5, <2>1, Singleton, ZenonT(60) DEF ReqRecv, Forward
<1>7. \A l \in Links \ {<<c, n>>} : SameLink(l)
  BY <1>3, <1>5, Zenon DEF ReqRecv, Forward, SameLink, Inv, TypeOK
<1>8. UNCHANGED <<cimsg, toClient, omsg, toDl, fromDl, applied, issued, answers>>
  BY ZenonT(60) DEF ReqRecv, clientVars, dlVars
<1>9. AtNode(c, n, r)'
  <2>1. \A m \in Nodes \ {n} : Idle(c, m)'
    BY <1>1, <1>7, ZenonT(60) DEF Sent, Idle, SameLink, Links
  <2>2. omsg'[<<c, n>>] = <<>> /\ toDl'[<<c, n>>] = <<>> /\ fromDl'[<<c, n>>] = <<>>
    BY <1>1, <1>5, <1>8, Zenon DEF Sent, Idle
  <2>3. fwd'[c] = (r.op = "set")
    BY <1>3, ZenonT(60) DEF ReqRecv, Forwards, Inv, TypeOK
  <2>4. r.op = "set" => n = 0
    BY DEF Target, Forwards
  <2>5. r.op # "set" => n = Replicas
    BY DEF Target, Forwards
  <2>6. StoredAt(r, 0..(n - 1))'
    BY <2>4 DEF StoredAt
  <2>7. toProxy'[c] = <<>>
    BY <1>3, ZenonT(60) DEF ReqRecv, Inv, TypeOK
  <2>8. NoReply(c)'
    BY <1>1, <1>8, SMTT(30) DEF Sent, NoReply
  <2> QED
    BY <1>6, <2>1, <2>2, <2>3, <2>5, <2>6, <2>7, <2>8, ZenonT(60) DEF AtNode
<1>10. ASSUME NEW d \in Clients \ {c} PROVE SameClient(d)
  <2>1. \A m \in Nodes : SameLink(<<d, m>>)
    BY <1>7 DEF Links
  <2>2. toProxy'[d] = toProxy[d] /\ fwd'[d] = fwd[d]
    BY ZenonT(60) DEF ReqRecv, Inv, TypeOK
  <2> QED
    BY <1>8, <2>1, <2>2, Zenon DEF SameClient
<1>11. InFlight(c)' /\ ~Resting(c) /\ Grows
  BY <1>3, <1>5, <1>8, <1>9, Zenon DEF InFlight, Resting, Grows, Nodes
<1> QED
  BY <1>8, <1>10, <1>11, Moved

LEMMA ReqRecvEofStep ==
  ASSUME Inv, TypeOK', NEW c \in Clients, ReqRecvEof(c)
  PROVE  ClosedLoop'
<1>1. /\ UNCHANGED <<cimsg, toClient, fwd, imsg, omsg, toDl, fromDl>>
      /\ UNCHANGED <<applied, issued, answers>>
  BY ZenonT(60) DEF ReqRecvEof, clientVars, dlVars
<1>0. toProxy \in [Clients -> Seq(Requests)] /\ toProxy' = [toProxy EXCEPT ![c] = <<>>]
  BY Zenon DEF ReqRecvEof, Inv, TypeOK
<1>2. \A d \in Clients \ {c} : SameClient(d)
  BY <1>0, <1>1, Zenon DEF SameClient, SameLink
<1>3. toProxy'[c] = <<>> /\ ClientOK(c) /\ Grows
  BY <1>0, <1>1, Zenon DEF Inv, ClosedLoop, Grows
<1>4. CASE toProxy[c] = <<>>
  <2>1. SameClient(c)
    BY <1>1, <1>3, <1>4, Zenon DEF SameClient, SameLink
  <2> QED
    BY <1>2, <1>3, <2>1, Frame, SMTT(30) DEF Inv, ClosedLoop
<1>5. CASE toProxy[c] # <<>>
  <2>1. Sent(c)
    BY <1>3, <1>5, FindSent, ZenonT(60) DEF ClientOK, Phases
  <2>2. Resting(c)'
    BY <1>1, <1>3, <2>1, ZenonT(60) DEF Sent, Resting, NoReply, Idle
  <2>3. ~Resting(c)
    BY <1>5, ZenonT(60) DEF Resting
  <2> QED
    BY <1>1, <1>2, <1>3, <2>2, <2>3, Moved, ZenonT(60)
<1> QED
  BY <1>4, <1>5

\* A send handler finds nothing, writes the request, or loses it.
LEMMA SendHeadStep ==
  ASSUME Inv, TypeOK', NEW c \in Clients, NEW n \in Nodes, SendHead(<<c, n>>)
  PROVE  ClosedLoop'
<1>0. DEFINE l == <<c, n>>
<1>1. /\ UNCHANGED <<toProxy, cimsg, toClient, fwd, fromDl, applied, issued, answers>>
      /\ l \in Links /\ ClientOK(c)
  BY Zenon DEF SendHead, clientVars, dlVars, Links, Inv, ClosedLoop
<1>2. ASSUME NEW k \in Links \ {l} PROVE SameLink(k)
  <2>0. /\ imsg \in [Links -> Seq(Requests)] /\ omsg \in [Links -> Seq(Requests)]
        /\ toDl \in [Links -> Seq(Requests)]
    BY Zenon DEF Inv, TypeOK
  <2>1. imsg'[k] = imsg[k]
    BY <2>0, Zenon DEF SendHead
  <2>2. omsg'[k] = omsg[k]
    BY <2>0, Zenon DEF SendHead
  <2>3. toDl'[k] = toDl[k]
    BY <2>0, Zenon DEF SendHead
  <2> QED
    BY <1>1, <2>1, <2>2, <2>3, ZenonT(60) DEF SameLink
<1>3. ASSUME NEW d \in Clients \ {c} PROVE SameClient(d)
  <2>1. \A m \in Nodes : SameLink(<<d, m>>)
    BY <1>2 DEF Links
  <2> QED
    BY <1>1, <2>1, Zenon DEF SameClient
<1>4. Grows
  BY <1>1, Zenon DEF Grows
<1>5. CASE imsg[l] = <<>>
  <2>1. UNCHANGED <<imsg, omsg, toDl>>
    BY <1>5, SMTT(30) DEF SendHead
  <2>2. SameClient(c)
    BY <1>1, <2>1, Zenon DEF SameClient, SameLink
  <2> QED
    BY <1>1, <1>3, <1>4, <2>2, Frame DEF Inv, ClosedLoop
<1>6. CASE imsg[l] # <<>>
  <2>1. PICK r \in Requests : AtNode(c, n, r) /\ imsg[l] = <<r>>
    BY <1>1, <1>6, FindQueued, Zenon DEF ClientOK, Phases
  <2>2. /\ Head(imsg[l]) = r /\ Tail(imsg[l]) = <<>>
        /\ omsg[l] = <<>> /\ toDl[l] = <<>> /\ fromDl[l] = <<>>
    BY <2>1, Singleton, ZenonT(60) DEF AtNode
  <2>3. ~Resting(c)
    BY <1>6 DEF Resting, Idle
  <2>4. imsg'[l] = <<>> /\ fromDl'[l] = <<>>
    BY <1>1, <1>6, <2>2, ZenonT(60) DEF SendHead, Inv, TypeOK
  <2>5. /\ \A m \in Nodes \ {n} : Idle(c, m)'
        /\ NoReply(c)' /\ toProxy'[c] = <<>>
    BY <1>1, <1>2, <2>1, Zenon DEF AtNode, Idle, SameLink, Links, NoReply
  <2>6. CASE omsg' = [omsg EXCEPT ![l] = Append(@, Head(imsg[l]))]
             /\ toDl' = [toDl EXCEPT ![l] = Append(@, Head(imsg[l]))]
    <3>1. omsg'[l] = <<r>> /\ toDl'[l] = <<r>>
      BY <1>1, <2>2, <2>6, Singleton, Zenon DEF Inv, TypeOK
    <3>2. StoredAt(r, 0..(n - 1))'
      BY <1>1, <2>1, Zenon DEF AtNode, StoredAt, ValueOf
    <3>3. AtNode(c, n, r)'
      BY <1>1, <2>1, <2>4, <2>5, <3>1, <3>2, Zenon DEF AtNode
    <3>4. InFlight(c)'
      BY <3>3 DEF InFlight
    <3> QED
      BY <1>1, <1>3, <1>4, <2>3, <3>4, Moved, SMTT(30)
  <2>7. CASE UNCHANGED <<omsg, toDl>>
    <3>1. Idle(c, n)'
      BY <2>2, <2>4, <2>7, Zenon DEF Idle
    <3>2. Resting(c)'
      BY <2>5, <3>1, Zenon DEF Resting
    <3> QED
      BY <1>1, <1>3, <1>4, <2>3, <3>2, Moved
  <2> QED
    BY <1>6, <2>6, <2>7, Zenon DEF SendHead
<1> QED
  BY <1>5, <1>6, ZenonT(60)

-----------------------------------------------------------------------------
(* A datalet answers.                                                      *)

\* The two response handlers, seen as one: a buffer is read, and its request is
\* handed on to the next node, or its answers to the client, or neither.
Responded(c, n) ==
  /\ \E k \in 1..Len(fromDl[<<c, n>>]) :
       /\ ReadBuffer(<<c, n>>, k)
       /\ \/ /\ n # Replicas /\ fwd[c]
             /\ Forward(<<c, n + 1>>, Head(omsg[<<c, n>>]))
             /\ UNCHANGED <<cimsg, cev>>
          \/ /\ fwd[c] => n = Replicas
             /\ Reply(c, SubSeq(fromDl[<<c, n>>], 1, k))
             /\ UNCHANGED <<imsg, ev>>
          \/ ~fwd[c] /\ UNCHANGED <<imsg, ev, cimsg, cev>>
  /\ UNCHANGED <<proxy, cerr, fwd, err, klog>>
  /\ UNCHANGED <<clientVars, toProxy, toClient, toDl, dlVars>>

LEMMA ResponseHandlers ==
  ASSUME NEW c \in Clients
  PROVE  /\ RspRecv(c) => Responded(c, 0)
         /\ \A n \in Slaves : ReplicaRspRecv(c, n) => Responded(c, n)
<1>1. 0 # Replicas /\ 0 + 1 = 1
  BY ConstantsAssumption
<1>2. ASSUME RspRecv(c) PROVE Responded(c, 0)
  <2>1. PICK k \in 1..Len(fromDl[<<c, 0>>]) :
          /\ ReadBuffer(<<c, 0>>, k)
          /\ IF fwd[c]
             THEN Forward(<<c, 1>>, Head(omsg[<<c, 0>>])) /\ UNCHANGED <<cimsg, cev>>
             ELSE Reply(c, SubSeq(fromDl[<<c, 0>>], 1, k)) /\ UNCHANGED <<imsg, ev>>
    BY <1>2, Zenon DEF RspRecv
  <2>2. CASE fwd[c]
    BY <1>1, <1>2, <2>1, <2>2, Zenon DEF Responded, RspRecv
  <2>3. CASE ~fwd[c]
    BY <1>1, <1>2, <2>1, <2>3, Zenon DEF Responded, RspRecv
  <2> QED
    BY <2>2, <2>3
<1>3. ASSUME NEW n \in Slaves, ReplicaRspRecv(c, n) PROVE Responded(c, n)
  BY <1>3, ZenonT(60) DEF Responded, ReplicaRspRecv, AtTail
<1> QED
  BY <1>2, <1>3

\* A response handler reads the one answer there is.
LEMMA ReadOne ==
  ASSUME Inv, NEW c \in Clients, NEW n \in Nodes,
         NEW k \in 1..Len(fromDl[<<c, n>>]), ReadBuffer(<<c, n>>, k)
  PROVE  \E r \in Requests, a \in Responses :
           /\ AtNode(c, n, r) /\ a.req = r /\ StoredAt(r, 0..n)
           /\ omsg[<<c, n>>] = <<r>> /\ toDl[<<c, n>>] = <<>> /\ imsg[<<c, n>>] = <<>>
           /\ fromDl[<<c, n>>] = <<a>>
           /\ SubSeq(fromDl[<<c, n>>], 1, k) = <<a>> /\ Head(omsg[<<c, n>>]) = r
           /\ fromDl' = [fromDl EXCEPT ![<<c, n>>] = <<>>]
           /\ omsg' = [omsg EXCEPT ![<<c, n>>] = <<>>]
<1>1. Phases(c) /\ fromDl[<<c, n>>] # <<>>
  BY Zenon DEF Inv, ClosedLoop, ClientOK, Phases, ReadBuffer
<1>2. PICK r \in Requests, a \in Responses :
        /\ AtNode(c, n, r) /\ a.req = r
        /\ fromDl[<<c, n>>] = <<a>> /\ omsg[<<c, n>>] = <<r>>
        /\ imsg[<<c, n>>] = <<>> /\ toDl[<<c, n>>] = <<>> /\ StoredAt(r, 0..n)
  BY <1>1, FindFromDl, Zenon
<1>3. Len(<<a>>) = 1 /\ Tail(<<r>>) = <<>> /\ Head(<<r>>) = r
  BY Singleton, Zenon
<1>4. k \in 1..1
  BY <1>2, <1>3, Zenon
<1>5. k = 1 /\ k + 1 = 2
  BY <1>4
<1>6. SubSeq(<<a>>, 1, k) = <<a>> /\ SubSeq(<<a>>, k + 1, Len(<<a>>)) = <<>>
  BY <1>3, <1>5, Singleton, ZenonT(60)
<1> QED
  BY <1>2, <1>3, <1>6, ZenonT(60) DEF ReadBuffer

\* What a handler of node n may have found, and the state after reading it.
HasRead(c, n, r, a) ==
  /\ AtNode(c, n, r) /\ a.req = r /\ StoredAt(r, 0..n)
  /\ omsg[<<c, n>>] = <<r>> /\ toDl[<<c, n>>] = <<>> /\ imsg[<<c, n>>] = <<>>
  /\ fromDl' = [fromDl EXCEPT ![<<c, n>>] = <<>>]
  /\ omsg' = [omsg EXCEPT ![<<c, n>>] = <<>>]
  /\ UNCHANGED <<toProxy, toClient, fwd, toDl, applied, issued, answers>>

\* Reading leaves the link idle and the other links alone.
LEMMA AfterRead ==
  ASSUME Inv, NEW c \in Clients, NEW n \in Nodes, NEW r \in Requests,
         NEW a \in Responses, HasRead(c, n, r, a)
  PROVE  /\ ~Resting(c) /\ Grows /\ NoReply(c) /\ toProxy[c] = <<>>
         /\ fromDl'[<<c, n>>] = <<>> /\ omsg'[<<c, n>>] = <<>>
         /\ \A j \in Links \ {<<c, n>>} : fromDl'[j] = fromDl[j] /\ omsg'[j] = omsg[j]
         /\ \A m \in Nodes \ {n} : Idle(c, m)
<1>1. <<c, n>> \in Links
  BY DEF Links
<1>2. DOMAIN fromDl = Links /\ DOMAIN omsg = Links
  BY ZenonT(60) DEF Inv, TypeOK
<1>3. /\ fromDl'[<<c, n>>] = <<>> /\ omsg'[<<c, n>>] = <<>>
      /\ \A j \in Links \ {<<c, n>>} : fromDl'[j] = fromDl[j] /\ omsg'[j] = omsg[j]
  BY <1>1, <1>2, Zenon DEF HasRead
<1>4. <<r>> # <<>>
  BY Singleton, Zenon
<1>5. ~Resting(c)
  BY <1>4, Zenon DEF HasRead, Resting, Idle
<1>6. Grows /\ NoReply(c) /\ toProxy[c] = <<>> /\ \A m \in Nodes \ {n} : Idle(c, m)
  BY Zenon DEF HasRead, Grows, AtNode
<1> QED
  BY <1>3, <1>5, <1>6, Zenon

\* A response handler of a closed-loop client finds its one request and its one
\* answer, and hands the request on, answers it, or drops the answer.
LEMMA RespondedOne ==
  ASSUME Inv, NEW c \in Clients, NEW n \in Nodes, Responded(c, n)
  PROVE  \E r \in Requests, a \in Responses :
           /\ HasRead(c, n, r, a) /\ fromDl[<<c, n>>] = <<a>>
           /\ \/ /\ fwd[c] /\ n # Replicas /\ UNCHANGED cimsg
                 /\ Forward(<<c, n + 1>>, r)
              \/ (fwd[c] => n = Replicas) /\ UNCHANGED imsg /\ Reply(c, <<a>>)
              \/ ~fwd[c] /\ UNCHANGED <<imsg, cimsg>>
<1>1. PICK k \in 1..Len(fromDl[<<c, n>>]) :
        /\ ReadBuffer(<<c, n>>, k)
        /\ \/ /\ fwd[c] /\ n # Replicas /\ UNCHANGED cimsg
              /\ Forward(<<c, n + 1>>, Head(omsg[<<c, n>>]))
           \/ /\ (fwd[c] => n = Replicas) /\ UNCHANGED imsg
              /\ Reply(c, SubSeq(fromDl[<<c, n>>], 1, k))
           \/ ~fwd[c] /\ UNCHANGED <<imsg, cimsg>>
  BY Zenon DEF Responded
<1>2. UNCHANGED <<toProxy, toClient, fwd, toDl, applied, issued, answers>>
  BY Zenon DEF Responded, clientVars, dlVars
<1>3. PICK r \in Requests, a \in Responses :
        /\ AtNode(c, n, r) /\ a.req = r /\ StoredAt(r, 0..n)
        /\ omsg[<<c, n>>] = <<r>> /\ toDl[<<c, n>>] = <<>> /\ imsg[<<c, n>>] = <<>>
        /\ fromDl[<<c, n>>] = <<a>>
        /\ SubSeq(fromDl[<<c, n>>], 1, k) = <<a>> /\ Head(omsg[<<c, n>>]) = r
        /\ fromDl' = [fromDl EXCEPT ![<<c, n>>] = <<>>]
        /\ omsg' = [omsg EXCEPT ![<<c, n>>] = <<>>]
  BY <1>1, ReadOne, ZenonT(60)
<1>4. HasRead(c, n, r, a)
  BY <1>2, <1>3, Zenon DEF HasRead
<1> QED
  BY <1>1, <1>3, <1>4, Zenon

\* The request is passed on to the next node.
LEMMA PassOn ==
  ASSUME Inv, TypeOK', NEW c \in Clients, NEW n \in Nodes, NEW r \in Requests,
         NEW a \in Responses, HasRead(c, n, r, a),
         fwd[c], n # Replicas, UNCHANGED cimsg, Forward(<<c, n + 1>>, r)
  PROVE  ClosedLoop'
<1>1. n + 1 \in Nodes /\ n + 1 # n /\ (n + 1) - 1 = n
  BY NodeFacts
<1>2. <<c, n + 1>> \in Links /\ <<c, n + 1>> # <<c, n>> /\ Idle(c, n + 1)
  <2>1. <<c, n + 1>> \in Links /\ <<c, n + 1>> # <<c, n>>
    BY <1>1 DEF Links
  <2>2. Idle(c, n + 1)
    <3>1. \A m \in Nodes \ {n} : Idle(c, m)
      BY AfterRead, ZenonT(60)
    <3> QED
      BY <1>1, <3>1, Zenon
  <2> QED
    BY <2>1, <2>2
<1>3. /\ imsg'[<<c, n + 1>>] = <<r>>
      /\ \A j \in Links \ {<<c, n + 1>>} : imsg'[j] = imsg[j]
  <2>1. DOMAIN imsg = Links /\ imsg[<<c, n + 1>>] = <<>>
    BY <1>2, Zenon DEF Inv, TypeOK, Idle
  <2>2. Append(imsg[<<c, n + 1>>], r) = <<r>>
    BY <2>1, Singleton, Zenon
  <2> QED
    BY <1>2, <2>1, <2>2 DEF Forward
<1>4. \A m \in Nodes \ {n + 1} : Idle(c, m)'
  <2>1. ASSUME NEW m \in Nodes, m # n + 1, m # n PROVE Idle(c, m)'
    <3>1. <<c, m>> \in Links /\ <<c, m>> # <<c, n>> /\ <<c, m>> # <<c, n + 1>>
      BY <2>1 DEF Links
    <3>2. Idle(c, m) /\ toDl' = toDl
      BY <2>1, AfterRead, Zenon DEF HasRead
    <3> QED
      BY <1>3, <3>1, <3>2, AfterRead, Zenon DEF Idle
  <2>2. Idle(c, n)'
    <3>1. <<c, n>> \in Links
      BY DEF Links
    <3> QED
      BY <1>2, <1>3, <3>1, AfterRead, Zenon DEF Idle, HasRead
  <2> QED
    BY <2>1, <2>2
<1>5. AtNode(c, n + 1, r)'
  <2>1. StoredAt(r, 0..((n + 1) - 1))'
    BY <1>1, Zenon DEF StoredAt, ValueOf, HasRead
  <2>2. /\ omsg'[<<c, n + 1>>] = <<>> /\ toDl'[<<c, n + 1>>] = <<>>
        /\ fromDl'[<<c, n + 1>>] = <<>>
    <3>1. /\ fromDl'[<<c, n + 1>>] = fromDl[<<c, n + 1>>]
          /\ omsg'[<<c, n + 1>>] = omsg[<<c, n + 1>>]
      BY <1>2, AfterRead, Zenon
    <3>2. toDl' = toDl
      BY Zenon DEF HasRead
    <3> QED
      BY <1>2, <3>1, <3>2, Zenon DEF Idle
  <2>3. fwd'[c] = (r.op = "set") /\ r.op = "set"
    BY Zenon DEF AtNode, HasRead
  <2>4. NoReply(c)' /\ toProxy'[c] = <<>>
    BY AfterRead, Zenon DEF NoReply, HasRead
  <2> QED
    BY <1>3, <1>4, <2>1, <2>2, <2>3, <2>4, Zenon DEF AtNode
<1>6. InFlight(c)'
  BY <1>1, <1>5, Zenon DEF InFlight
<1>7. /\ \A j \in Links \ {<<c, n>>} : fromDl'[j] = fromDl[j] /\ omsg'[j] = omsg[j]
      /\ UNCHANGED toDl
  BY AfterRead, Zenon DEF HasRead
<1>8. ASSUME NEW d \in Clients, d # c PROVE SameClient(d)
  <2>1. ASSUME NEW m \in Nodes PROVE SameLink(<<d, m>>)
    <3>1. <<d, m>> \in Links /\ <<d, m>> # <<c, n>> /\ <<d, m>> # <<c, n + 1>>
      BY <1>8 DEF Links
    <3> QED
      BY <1>3, <1>7, <3>1, Zenon DEF SameLink
  <2> QED
    BY <2>1, ZenonT(60) DEF SameClient, HasRead
<1> QED
  BY <1>6, <1>8, AfterRead, Moved, Zenon DEF HasRead

\* What answering and dropping have in common.
LEMMA LinksIdle ==
  ASSUME Inv, NEW c \in Clients, NEW n \in Nodes, NEW r \in Requests,
         NEW a \in Responses, HasRead(c, n, r, a), UNCHANGED imsg
  PROVE  /\ \A m \in Nodes : Idle(c, m)'
         /\ \A d \in Clients \ {c}, m \in Nodes : SameLink(<<d, m>>)
<1>1. ASSUME NEW m \in Nodes PROVE Idle(c, m)'
  <2>1. <<c, m>> \in Links
    BY DEF Links
  <2>2. CASE m = n
    BY <2>1, <2>2, AfterRead, Zenon DEF Idle, HasRead
  <2>3. CASE m # n
    <3>1. <<c, m>> # <<c, n>> /\ Idle(c, m)
      BY <2>3, AfterRead, ZenonT(60)
    <3> QED
      BY <2>1, <3>1, AfterRead, ZenonT(60) DEF Idle, HasRead
  <2> QED
    BY <2>2, <2>3
<1>2. /\ \A j \in Links \ {<<c, n>>} : fromDl'[j] = fromDl[j] /\ omsg'[j] = omsg[j]
      /\ UNCHANGED toDl
  BY AfterRead, Zenon DEF HasRead
<1>3. ASSUME NEW d \in Clients, d # c, NEW m \in Nodes PROVE SameLink(<<d, m>>)
  <2>1. <<d, m>> \in Links /\ <<d, m>> # <<c, n>>
    BY <1>3 DEF Links
  <2> QED
    BY <1>2, <2>1, Zenon DEF SameLink
<1> QED
  BY <1>1, <1>3

\* The answer is passed on to the client.
LEMMA PassBack ==
  ASSUME Inv, TypeOK', NEW c \in Clients, NEW n \in Nodes, NEW r \in Requests,
         NEW a \in Responses, HasRead(c, n, r, a),
         fwd[c] => n = Replicas, Reply(c, <<a>>), UNCHANGED imsg
  PROVE  ClosedLoop'
<1>1. cimsg'[c] = <<<<a>>>> /\ \A d \in Clients \ {c} : cimsg'[d] = cimsg[d]
  <2>1. DOMAIN cimsg = Clients /\ cimsg[c] = <<>>
    BY AfterRead, Zenon DEF Inv, TypeOK, NoReply
  <2>2. Append(cimsg[c], <<a>>) = <<<<a>>>>
    BY <2>1, Singleton, Zenon
  <2> QED
    BY <2>1, <2>2 DEF Reply
<1>2. StoredAt(a.req, Nodes)'
  <2>1. r.op = "set" => n = Replicas
    BY Zenon DEF AtNode, HasRead
  <2> QED
    BY <2>1, NodeFacts, Zenon DEF StoredAt, ValueOf, HasRead
<1>3. Replying(c, a)'
  BY <1>1, <1>2, AfterRead, LinksIdle, Zenon DEF Replying, NoReply, HasRead
<1>4. InFlight(c)'
  BY <1>3, Zenon DEF InFlight
<1>5. ASSUME NEW d \in Clients, d # c PROVE SameClient(d)
  BY <1>1, <1>5, LinksIdle, Zenon DEF SameClient, HasRead
<1> QED
  BY <1>4, <1>5, AfterRead, Moved, Zenon DEF HasRead

\* The answer is dropped.
LEMMA DropAnswer ==
  ASSUME Inv, TypeOK', NEW c \in Clients, NEW n \in Nodes, NEW r \in Requests,
         NEW a \in Responses, HasRead(c, n, r, a), UNCHANGED <<imsg, cimsg>>
  PROVE  ClosedLoop'
<1>1. Resting(c)'
  BY AfterRead, LinksIdle, Zenon DEF Resting, NoReply, HasRead
<1>2. ASSUME NEW d \in Clients, d # c PROVE SameClient(d)
  BY <1>2, LinksIdle, Zenon DEF SameClient, HasRead
<1> QED
  BY <1>1, <1>2, AfterRead, Moved, Zenon DEF HasRead

LEMMA RespondedStep ==
  ASSUME Inv, TypeOK', NEW c \in Clients, NEW n \in Nodes, Responded(c, n)
  PROVE  ClosedLoop'
  BY RespondedOne, PassOn, PassBack, DropAnswer, Zenon

\* A read that fails loses the answer, if there is one.
LEMMA RspRecvFailStep ==
  ASSUME Inv, TypeOK', NEW c \in Clients, NEW n \in Nodes, RspRecvFail(c, n)
  PROVE  ClosedLoop'
<1>0. DEFINE l == <<c, n>>
<1>1. /\ UNCHANGED <<toProxy, cimsg, toClient, fwd, imsg, omsg, toDl>>
      /\ UNCHANGED <<applied, issued, answers>>
      /\ l \in Links /\ ClientOK(c) /\ fromDl'[l] = <<>>
      /\ \A k \in Links \ {l} : fromDl'[k] = fromDl[k]
  BY Zenon DEF RspRecvFail, clientVars, dlVars, Links, Inv, ClosedLoop, TypeOK
<1>2. ASSUME NEW d \in Clients \ {c} PROVE SameClient(d)
  BY <1>1, Zenon DEF SameClient, SameLink, Links
<1>3. Grows
  BY <1>1, ZenonT(60) DEF Grows
<1>4. CASE fromDl[l] = <<>>
  <2>1. fromDl'[l] = fromDl[l]
    BY <1>1, <1>4, Zenon
  <2>2. SameClient(c)
    BY <1>1, <2>1, Zenon DEF SameClient, SameLink, Links
  <2> QED
    BY <1>1, <1>2, <1>3, <2>2, Frame, ZenonT(60) DEF Inv, ClosedLoop
<1>5. CASE fromDl[l] # <<>>
  <2>1. PICK r \in Requests : AtNode(c, n, r) /\ omsg[l] = <<r>>
                              /\ imsg[l] = <<>> /\ toDl[l] = <<>>
    BY <1>1, <1>5, FindFromDl, Zenon DEF ClientOK, Phases
  <2>2. StoredAt(r, 0..(n - 1))'
    BY <1>1, <2>1, Zenon DEF AtNode, StoredAt, ValueOf
  <2>3. \A m \in Nodes \ {n} : Idle(c, m)'
    BY <1>1, <2>1, Zenon DEF AtNode, Idle, Links
  <2>4. AtNode(c, n, r)'
    BY <1>1, <2>1, <2>2, <2>3, Zenon DEF AtNode, NoReply
  <2>5. InFlight(c)' /\ ~Resting(c)
    BY <1>5, <2>4, ZenonT(60) DEF InFlight, Resting, Idle
  <2> QED
    BY <1>1, <1>2, <1>3, <2>5, Moved, Zenon
<1> QED
  BY <1>4, <1>5

\* The answer is written to the client, or lost with its connection.
LEMMA RspSendStep ==
  ASSUME Inv, TypeOK', NEW c \in Clients, RspSend(c)
  PROVE  ClosedLoop'
<1>1. /\ UNCHANGED <<toProxy, fwd, imsg, omsg, toDl, fromDl>>
      /\ UNCHANGED <<applied, issued, answers>> /\ ClientOK(c)
  BY Zenon DEF RspSend, clientVars, dlVars, Inv, ClosedLoop
<1>2. ASSUME NEW d \in Clients \ {c} PROVE SameClient(d)
  <2>0. DOMAIN cimsg = Clients /\ DOMAIN toClient = Clients
    BY Zenon DEF Inv, TypeOK
  <2>1. cimsg'[d] = cimsg[d]
    <3>1. cimsg' \in {cimsg, [cimsg EXCEPT ![c] = Tail(@)]}
      BY ZenonT(60) DEF RspSend
    <3> QED
      BY <2>0, <3>1, SMTT(30)
  <2>2. toClient'[d] = toClient[d]
    <3>1. toClient' \in {toClient, [toClient EXCEPT ![c] = @ \o Head(cimsg[c])]}
      BY Zenon DEF RspSend
    <3> QED
      BY <2>0, <3>1
  <2> QED
    BY <1>1, <2>1, <2>2, Zenon DEF SameClient, SameLink
<1>3. Grows
  BY <1>1 DEF Grows
<1>4. CASE cimsg[c] = <<>>
  <2>1. SameClient(c)
    BY <1>1, <1>4, Zenon DEF RspSend, SameClient, SameLink
  <2> QED
    BY <1>1, <1>2, <1>3, <2>1, Frame DEF Inv, ClosedLoop
<1>5. CASE cimsg[c] # <<>>
  <2>1. PICK a \in Responses : Replying(c, a)
    BY <1>1, <1>5, FindReply, ZenonT(60) DEF ClientOK, Phases, NoReply
  <2>2. cimsg[c] = <<<<a>>>> /\ toClient[c] = <<>>
    BY <1>5, <2>1, Zenon DEF Replying
  <2>3. Head(cimsg[c]) = <<a>> /\ Tail(cimsg[c]) = <<>>
    BY <2>2, Singleton
  <2>4. cimsg'[c] = <<>>
    BY <1>5, <2>3, ZenonT(60) DEF RspSend, Inv, TypeOK
  <2>5. toClient'[c] = <<a>> \/ toClient'[c] = <<>>
    <3>1. toClient' \in {toClient, [toClient EXCEPT ![c] = @ \o Head(cimsg[c])]}
      BY Zenon DEF RspSend
    <3>2. DOMAIN toClient = Clients /\ toClient[c] \o Head(cimsg[c]) = <<a>>
      BY <2>2, <2>3, Singleton, Zenon DEF Inv, TypeOK
    <3> QED
      BY <2>2, <3>1, <3>2
  <2>6. StoredAt(a.req, Nodes)' /\ toProxy'[c] = <<>> /\ \A n \in Nodes : Idle(c, n)'
    BY <1>1, <2>1, ZenonT(60) DEF Replying, StoredAt, ValueOf, Idle
  <2>7. ~Resting(c)
    BY <1>5, SMTT(30) DEF Resting, NoReply
  <2>8. Resting(c)' \/ InFlight(c)'
    BY <2>4, <2>5, <2>6, ZenonT(60) DEF Resting, InFlight, Replying, NoReply
  <2> QED
    BY <1>1, <1>2, <1>3, <2>7, <2>8, Moved
<1> QED
  BY <1>4, <1>5

-----------------------------------------------------------------------------
(* The invariant is inductive.                                             *)

\* Only a datalet changes what is stored, so every other step keeps ChainOrder.
LEMMA NextInv == Window = 1 /\ Inv /\ [Next]_vars => Inv'
<1> SUFFICES ASSUME Window = 1, Inv, [Next]_vars PROVE Inv'
  OBVIOUS
<1>1. TypeOK'
  BY NextTypeOK DEF Inv
<1>2. ASSUME UNCHANGED applied PROVE ChainOrder'
  BY <1>2 DEF Inv, ChainOrder
<1>3. ASSUME NEW c \in Clients, Issue(c) \/ ClientRead(c) \/ ClientClose(c)
      PROVE  Inv'
  <2>1. UNCHANGED applied
    BY <1>3, Zenon DEF Issue, ClientRead, ClientClose, dlVars
  <2> QED
    BY <1>1, <1>2, <1>3, <2>1, ClientSteps, SMTT(30) DEF Inv
<1>4. ASSUME NEW c \in Clients, NEW n \in Nodes, HandleRequest(c, n) PROVE Inv'
  BY <1>1, <1>4, HandleRequestStep DEF Inv
<1>5. ASSUME NEW c \in Clients, Handlers(c) PROVE Inv'
  <2>1. \A n \in Slaves : n \in Nodes
    BY ConstantsAssumption DEF Nodes, Slaves
  <2>2. 0 \in Nodes
    BY ConstantsAssumption DEF Nodes
  <2>3. CASE ReqRecv(c)
    BY <1>1, <1>2, <2>3, ReqRecvStep, Zenon DEF ReqRecv, dlVars, Inv
  <2>4. CASE ReqRecvEof(c)
    BY <1>1, <1>2, <2>4, ReqRecvEofStep, Zenon DEF ReqRecvEof, dlVars, Inv
  <2>5. ASSUME NEW n \in Nodes, SendHead(<<c, n>>) PROVE Inv'
    BY <1>1, <1>2, <2>5, SendHeadStep, ZenonT(60) DEF SendHead, dlVars, Inv
  <2>6. ASSUME NEW n \in Nodes, Responded(c, n) PROVE Inv'
    BY <1>1, <1>2, <2>6, RespondedStep, Zenon DEF Responded, dlVars, Inv
  <2>7. RspRecv(c) \/ (\E n \in Slaves : ReplicaRspRecv(c, n)) => Inv'
    BY <2>1, <2>2, <2>6, ResponseHandlers, Zenon
  <2>8. ASSUME NEW n \in Nodes, RspRecvFail(c, n) PROVE Inv'
    BY <1>1, <1>2, <2>8, RspRecvFailStep, ZenonT(60) DEF RspRecvFail, dlVars, Inv
  <2>9. CASE RspSend(c)
    BY <1>1, <1>2, <2>9, RspSendStep, Zenon DEF RspSend, dlVars, Inv
  <2> QED
    BY <1>5, <2>1, <2>2, <2>3, <2>4, <2>5, <2>6, <2>7, <2>8, <2>9, Zenon
    DEF Handlers, ReqSend, ReplicaReqSend
<1>6. ASSUME UNCHANGED <<toProxy, cimsg, toClient, fwd, issued, answers>>,
             UNCHANGED <<imsg, omsg, toDl, fromDl, applied>>
      PROVE  Inv'
  <2>1. Grows /\ \A c \in Clients : SameClient(c)
    BY <1>6, Zenon DEF Grows, SameClient, SameLink
  <2>2. ClosedLoop'
    BY <2>1, Frame DEF Inv, ClosedLoop
  <2> QED
    BY <1>1, <1>2, <1>6, <2>2 DEF Inv
<1>7. ASSUME NEW c \in Clients, Accept(c) PROVE Inv'
  BY <1>6, <1>7, Zenon DEF Accept, netVars, dlVars
<1>8. ASSUME NEW n \in CanFail, DataletStop(n) PROVE Inv'
  BY <1>6, <1>8 DEF DataletStop, proxyVars, clientVars, netVars
<1>9. CASE UNCHANGED vars
  BY <1>6, <1>9, Zenon DEF vars, proxyVars, clientVars, netVars, dlVars
<1> QED
  BY <1>3, <1>4, <1>5, <1>7, <1>8, <1>9 DEF Next

LEMMA InvAcked == Inv => AckedEverywhere
<1> SUFFICES ASSUME Inv, NEW c \in Clients, NEW a \in Acked(c)
             PROVE  StoredAt(a.req, Nodes)
  BY DEF AckedEverywhere, StoredAt
<1>1. ClientOK(c)
  BY DEF Inv, ClosedLoop
<1>2. CASE a \in Range(answers[c])
  BY <1>1, <1>2, SMTT(30) DEF ClientOK
<1>3. CASE a \notin Range(answers[c])
  <2>1. \/ \E i \in DOMAIN cimsg[c] : a \in Range(cimsg[c][i])
        \/ a \in Range(toClient[c])
    <3>1. CASE a \in UNION {Range(cimsg[c][i]) : i \in DOMAIN cimsg[c]}
      <4>1. PICK S \in {Range(cimsg[c][i]) : i \in DOMAIN cimsg[c]} : a \in S
        BY <3>1
      <4> QED
        BY <4>1
    <3> QED
      BY <1>3, <3>1 DEF Acked
  <2>2. ~NoReply(c)
    BY <2>1 DEF NoReply, Range
  <2>3. PICK b \in Responses : Replying(c, b)
    BY <1>1, <2>2, FindReply, SMTT(30) DEF ClientOK, Phases
  <2>4. a = b
    <3>1. CASE cimsg[c] = <<<<b>>>> /\ toClient[c] = <<>>
      <4>1. \A i \in DOMAIN cimsg[c] : cimsg[c][i] = <<b>>
        BY <3>1
      <4> QED
        BY <2>1, <3>1, <4>1, Singleton DEF Range
    <3>2. CASE cimsg[c] = <<>> /\ toClient[c] = <<b>>
      BY <2>1, <3>2, Singleton DEF Range
    <3> QED
      BY <2>3, <3>1, <3>2, Zenon DEF Replying
  <2> QED
    BY <2>3, <2>4, Zenon DEF Replying
<1> QED
  BY <1>2, <1>3

\* With closed-loop clients the invariant holds in every behaviour.
THEOREM InvHolds == ASSUME Window = 1 PROVE Spec => []Inv
<1>1. Inv /\ [Next]_vars => Inv'
  BY NextInv
<1> QED
  BY <1>1, InitInv, PTL DEF Spec

\* Closed-loop clients: their one request is in one place (see ClosedLoop).
THEOREM ClosedLoopHolds == ASSUME Window = 1 PROVE Spec => []ClosedLoop
  BY InvHolds, PTL DEF Inv

\* With closed-loop clients, any number of replicas, and datalets and clients
\* that stop at any moment, a set whose answer the proxy has queued, sent or
\* delivered is stored on the master and on every slave.
THEOREM AckedEverywhereHolds == ASSUME Window = 1 PROVE Spec => []AckedEverywhere
  BY InvHolds, InvAcked, PTL

\* ... and the nodes of the chain store sets in chain order.
THEOREM ChainOrderHolds == ASSUME Window = 1 PROVE Spec => []ChainOrder
  BY InvHolds, PTL DEF Inv
=============================================================================
